---- MODULE Spec2Model ----
(***************************************************************************)
(* A model of the Awgen voxel engine: the sparse voxel world storage       *)
(* (crates/awgen_world/src/world.rs), the chunk load-state tracker and the *)
(* streaming scheduler (crates/awgen_world/src/populator.rs), the block    *)
(* shapes and the chunk mesher (crates/awgen_world_mesh/src), and the      *)
(* connection events of the server (crates/awgen_network/src).             *)
(*                                                                         *)
(* IVec3 values are triples <<x, y, z>>.  An Option is a sequence of       *)
(* length 0 (None) or 1 (Some).  Fixed arrays of 4096 elements are         *)
(* functions over 0..4095.                                                 *)
(***************************************************************************)
EXTENDS Integers, Sequences, FiniteSets, TLC

VARIABLES
    regions,      \* VoxelWorld::regions, the list of VoxelRegion
    states,       \* the VoxelChunkStates component of each world entity:
                  \* its regions, the list of VoxelChunkStateRegion
    anchors,      \* the entities with ChunkAnchor and Position, in query order
    load_chunk_ev,\* the LoadChunkEvents sent by the last run of load_chunks
    requested,    \* history: the <<world, chunk>> pairs that received a
                  \* LoadChunkEvent and were not set back to Unloaded since
    ticks,        \* number of runs of load_chunks so far
    sets,         \* number of chunk state changes by other systems so far
    prev_val,     \* history: what the last operation found before it ran
    writes,       \* number of set_block_data calls made so far
    shadow,       \* history: the value last written at each written position
    last_op,      \* the operation that ran last
    last_pos,     \* its block position argument (or the pair of corners)
    last_val,     \* the value passed to set_block_data
    panicked,     \* whether the last operation panicked instead of returning
    ret,          \* what the last operation returned, as a sequence of values
    server_events,\* Events<ServerEvent>: the events server_socket_event has
                  \* not read yet
    client_list,  \* the entities with a ClientSocket, in query order
    clients,      \* the ids of the clients the RenetServer holds as connected
    reserved      \* number of entities reserved so far

\* The variables of the network plugin.
net == <<server_events, client_list, clients, reserved>>

vars == <<regions, states, anchors, load_chunk_ev, requested, ticks, sets,
          prev_val, writes, shadow, last_op, last_pos, last_val, panicked, ret,
          server_events, client_list, clients, reserved>>

----------------------------------------------------------------------------
(* Bounds of the exploration. *)

\* The number of set_block_data calls in one behaviour.
MaxWrites == 2

\* The number of runs of load_chunks in one behaviour.
MaxTicks == 2

\* The number of chunk state changes other systems make in one behaviour.
MaxSets == 1

----------------------------------------------------------------------------
(* Program constants. *)

\* A chunk is 16 blocks wide and a region 16 chunks wide: a shift by 4.
ChunkShift == 4

\* A block position is shifted by 8 to reach its region.
RegionShift == 8

\* The mask that extracts a local offset.
LocalMask == 15

\* The number of slots of a chunk's block array and of a region's chunk array.
ArrayLen == 4096

\* u8::default(), the default of the payload type used by the tests.
BlockDefault == 0

----------------------------------------------------------------------------
(* Two's complement arithmetic on i32, component by component. *)

\* 2^n
RECURSIVE Pow2(_)
Pow2(n) == IF n = 0 THEN 1 ELSE 2 * Pow2(n - 1)

\* !x: the bitwise complement of an i32.
BitNot(x) == -(x + 1)

\* x >> n on i32: the sign bit is copied in, so a negative x is the
\* complement of the logical shift of its complement.
ShrI32(x, n) ==
    IF x >= 0 THEN x \div Pow2(n) ELSE BitNot(BitNot(x) \div Pow2(n))

\* x << n on i32 (no input of the model reaches the sign bit).
ShlI32(x, n) == x * Pow2(n)

\* x & 15 on i32: the low four bits; those of a negative x are the
\* complements of the low four bits of its complement.
And15(x) ==
    IF x >= 0 THEN x % (LocalMask + 1)
    ELSE LocalMask - (BitNot(x) % (LocalMask + 1))

Min(a, b) == IF a <= b THEN a ELSE b
Max(a, b) == IF a >= b THEN a ELSE b

VShr(v, n) == <<ShrI32(v[1], n), ShrI32(v[2], n), ShrI32(v[3], n)>>
VShl(v, n) == <<ShlI32(v[1], n), ShlI32(v[2], n), ShlI32(v[3], n)>>
VAnd15(v) == <<And15(v[1]), And15(v[2]), And15(v[3])>>
VAdd(a, b) == <<a[1] + b[1], a[2] + b[2], a[3] + b[3]>>
VSub(a, b) == <<a[1] - b[1], a[2] - b[2], a[3] - b[3]>>
VAddS(a, k) == <<a[1] + k, a[2] + k, a[3] + k>>
VMin(a, b) == <<Min(a[1], b[1]), Min(a[2], b[2]), Min(a[3], b[3])>>
VMax(a, b) == <<Max(a[1], b[1]), Max(a[2], b[2]), Max(a[3], b[3])>>

----------------------------------------------------------------------------
(* Voxel world storage. *)

None == <<>>
Some(x) == <<x>>

\* VoxelChunk::default(): 4096 default blocks.
VoxelChunkDefault == [blocks |-> [i \in 0 .. ArrayLen - 1 |-> BlockDefault]]

\* [(); 4096].map(|_| None): 4096 empty chunk slots.
NoChunks == [i \in 0 .. ArrayLen - 1 |-> None]

\* VoxelRegion::new(region_coords)
VoxelRegionNew(region_coords) ==
    [chunks |-> NoChunks, region_coords |-> region_coords]

\* x * 16 * 16 + y * 16 + z
LinearIndex(c) == c[1] * 16 * 16 + c[2] * 16 + c[3]

\* self.regions.iter().position(|r| r.region_coords == region_coords):
\* the index of the first region with these coordinates, 0 if there is none.
FindRegion(rs, region_coords) ==
    LET hits == {i \in 1 .. Len(rs) : rs[i].region_coords = region_coords}
    IN  IF hits = {} THEN 0 ELSE CHOOSE i \in hits : \A j \in hits : i <= j

\* The chunk slot a region list holds for a region coordinate and an index.
FindChunk(rs, region_coords, chunk_index) ==
    LET r == FindRegion(rs, region_coords)
    IN  IF r = 0 THEN None ELSE rs[r].chunks[chunk_index]

\* get_block_data with the chunk index taken from the block's local offset
\* (the shift by 4 forgotten).
get_block_data_unshifted(rs, block_pos) ==
    LET region_coords == VShr(block_pos, RegionShift)
        chunk_coords  == VAnd15(block_pos)
        chunk_index   == LinearIndex(chunk_coords)
        block_coords  == VAnd15(block_pos)
        block_index   == LinearIndex(block_coords)
        chunk         == FindChunk(rs, region_coords, chunk_index)
    IN  IF chunk = None THEN BlockDefault ELSE chunk[1].blocks[block_index]

get_block_data(rs, block_pos) ==
    LET region_coords == VShr(block_pos, RegionShift)
        chunk_coords  == VAnd15(VShr(block_pos, ChunkShift))
        chunk_index   == LinearIndex(chunk_coords)
        block_coords  == VAnd15(block_pos)
        block_index   == LinearIndex(block_coords)
        chunk         == FindChunk(rs, region_coords, chunk_index)
    IN  IF chunk = None THEN BlockDefault ELSE chunk[1].blocks[block_index]

\* set_block_data with the region found by the chunk coordinate (a shift by 4
\* where the code shifts by 8).
set_block_data_chunk_region(rs, block_pos, data) ==
    LET region_coords == VShr(block_pos, ChunkShift)
        chunk_coords  == VAnd15(VShr(block_pos, ChunkShift))
        chunk_index   == LinearIndex(chunk_coords)
        block_coords  == VAnd15(block_pos)
        block_index   == LinearIndex(block_coords)
        r             == FindRegion(rs, region_coords)
    IN  IF r # 0
        THEN IF rs[r].chunks[chunk_index] # None
             THEN [rs EXCEPT ![r].chunks[chunk_index][1].blocks[block_index] = data]
             ELSE [rs EXCEPT ![r].chunks[chunk_index] =
                      Some([VoxelChunkDefault EXCEPT !.blocks[block_index] = data])]
        ELSE Append(rs,
                 [VoxelRegionNew(region_coords) EXCEPT !.chunks[chunk_index] =
                      Some([VoxelChunkDefault EXCEPT !.blocks[block_index] = data])])

\* set_block_data without the return that ends the loop over the regions: the
\* write into an existing region is followed by the push of a new one.
set_block_data_no_return(rs, block_pos, data) ==
    LET region_coords == VShr(block_pos, RegionShift)
        chunk_coords  == VAnd15(VShr(block_pos, ChunkShift))
        chunk_index   == LinearIndex(chunk_coords)
        block_coords  == VAnd15(block_pos)
        block_index   == LinearIndex(block_coords)
        r             == FindRegion(rs, region_coords)
        written_rs    ==
            IF r = 0 THEN rs
            ELSE IF rs[r].chunks[chunk_index] # None
            THEN [rs EXCEPT ![r].chunks[chunk_index][1].blocks[block_index] = data]
            ELSE [rs EXCEPT ![r].chunks[chunk_index] =
                     Some([VoxelChunkDefault EXCEPT !.blocks[block_index] = data])]
    IN  Append(written_rs,
            [VoxelRegionNew(region_coords) EXCEPT !.chunks[chunk_index] =
                 Some([VoxelChunkDefault EXCEPT !.blocks[block_index] = data])])

\* x / d on i32: the division of Rust, which rounds towards zero.
DivI32(x, d) == IF x >= 0 THEN x \div d ELSE (x + d - 1) \div d

\* set_block_data with the region and the chunk found by division (rounding
\* towards zero) where the code shifts.
set_block_data_divided(rs, block_pos, data) ==
    LET region_coords == <<DivI32(block_pos[1], 256), DivI32(block_pos[2], 256),
                           DivI32(block_pos[3], 256)>>
        chunk_coords  == VAnd15(<<DivI32(block_pos[1], 16), DivI32(block_pos[2], 16),
                                  DivI32(block_pos[3], 16)>>)
        chunk_index   == LinearIndex(chunk_coords)
        block_coords  == VAnd15(block_pos)
        block_index   == LinearIndex(block_coords)
        r             == FindRegion(rs, region_coords)
    IN  IF r # 0
        THEN IF rs[r].chunks[chunk_index] # None
             THEN [rs EXCEPT ![r].chunks[chunk_index][1].blocks[block_index] = data]
             ELSE [rs EXCEPT ![r].chunks[chunk_index] =
                      Some([VoxelChunkDefault EXCEPT !.blocks[block_index] = data])]
        ELSE Append(rs,
                 [VoxelRegionNew(region_coords) EXCEPT !.chunks[chunk_index] =
                      Some([VoxelChunkDefault EXCEPT !.blocks[block_index] = data])])

\* set_block_data that puts a fresh chunk holding the one block in the place
\* of the chunk it finds.
set_block_data_fresh_chunk(rs, block_pos, data) ==
    LET region_coords == VShr(block_pos, RegionShift)
        chunk_coords  == VAnd15(VShr(block_pos, ChunkShift))
        chunk_index   == LinearIndex(chunk_coords)
        block_coords  == VAnd15(block_pos)
        block_index   == LinearIndex(block_coords)
        r             == FindRegion(rs, region_coords)
    IN  IF r # 0
        THEN [rs EXCEPT ![r].chunks[chunk_index] =
                 Some([VoxelChunkDefault EXCEPT !.blocks[block_index] = data])]
        ELSE Append(rs,
                 [VoxelRegionNew(region_coords) EXCEPT !.chunks[chunk_index] =
                      Some([VoxelChunkDefault EXCEPT !.blocks[block_index] = data])])

set_block_data(rs, block_pos, data) ==
    LET region_coords == VShr(block_pos, RegionShift)
        chunk_coords  == VAnd15(VShr(block_pos, ChunkShift))
        chunk_index   == LinearIndex(chunk_coords)
        block_coords  == VAnd15(block_pos)
        block_index   == LinearIndex(block_coords)
        r             == FindRegion(rs, region_coords)
    IN  IF r # 0
        THEN IF rs[r].chunks[chunk_index] # None
             THEN [rs EXCEPT ![r].chunks[chunk_index][1].blocks[block_index] = data]
             ELSE [rs EXCEPT ![r].chunks[chunk_index] =
                      Some([VoxelChunkDefault EXCEPT !.blocks[block_index] = data])]
        ELSE Append(rs,
                 [VoxelRegionNew(region_coords) EXCEPT !.chunks[chunk_index] =
                      Some([VoxelChunkDefault EXCEPT !.blocks[block_index] = data])])

\* CuboidIterator::from_points(a, b): every point of the inclusive cuboid
\* from a to b (a <= b on every axis), as a sequence, x outermost and z
\* innermost.
CuboidIterator(a, b) ==
    LET sx == b[1] - a[1] + 1
        sy == b[2] - a[2] + 1
        sz == b[3] - a[3] + 1
    IN  [i \in 1 .. sx * sy * sz |->
            <<a[1] + (i - 1) \div (sy * sz),
              a[2] + (((i - 1) \div sz) % sy),
              a[3] + ((i - 1) % sz)>>]

\* The body of the inner loop with the output index of the documentation
\* comment of get_block_region, X * 256 + Y * 16 + Z.
CopyBlockDocIndex(out, block, chunk, min, size) ==
    LET data_pos   == VSub(block, min)
        data_index == LinearIndex(data_pos)
        index      == LinearIndex(VAnd15(block))
        value      == IF chunk # None THEN chunk[1].blocks[index]
                      ELSE BlockDefault
    IN  IF data_index < 0 \/ data_index >= Len(out.data)
        THEN [out EXCEPT !.ok = FALSE]
        ELSE [out EXCEPT !.data[data_index + 1] = value]

\* data_index of the inner loop: the place of a block in the output vector.
DataIndex(block, min, size) ==
    LET data_pos == VSub(block, min)
    IN  data_pos[1] * size[2] * size[3] + data_pos[2] * size[3] + data_pos[3]

\* The body of the inner loop of get_block_region: copy one block of a chunk
\* into the output.  out.data is the output vector (index i of the code is
\* element i + 1), out.ok turns FALSE when an index is out of bounds (the code
\* panics).
CopyBlock(out, block, chunk, min, size) ==
    LET data_index == DataIndex(block, min, size)
        index      == LinearIndex(VAnd15(block))
        value      == IF chunk # None THEN chunk[1].blocks[index]
                      ELSE BlockDefault
    IN  IF data_index < 0 \/ data_index >= Len(out.data)
        THEN [out EXCEPT !.ok = FALSE]
        ELSE [out EXCEPT !.data[data_index + 1] = value]

\* The inner loop of get_block_region over the blocks lo..hi of one chunk's
\* sub-cuboid, in the iterator's order: the first half of the range, then the
\* second half.  A panic ends the loop.
RECURSIVE CopyBlocks(_, _, _, _, _, _, _)
CopyBlocks(out, blocks, lo, hi, chunk, min, size) ==
    IF lo > hi \/ ~out.ok THEN out
    ELSE IF lo = hi THEN CopyBlock(out, blocks[lo], chunk, min, size)
    ELSE LET mid == (lo + hi) \div 2
         IN  CopyBlocks(CopyBlocks(out, blocks, lo, mid, chunk, min, size),
                        blocks, mid + 1, hi, chunk, min, size)

\* The sub-cuboid of a chunk taken to be the whole chunk, not cut to the
\* requested cuboid.
SubCuboidWholeChunk(chunk_coords, min, max) ==
    <<VShl(chunk_coords, ChunkShift),
      VAddS(VShl(chunk_coords, ChunkShift), LocalMask)>>

\* block_min and block_max: the part of the requested cuboid that lies in a
\* chunk.
SubCuboid(chunk_coords, min, max) ==
    <<VMax(min, VShl(chunk_coords, ChunkShift)),
      VMin(max, VAddS(VShl(chunk_coords, ChunkShift), LocalMask))>>

\* The outer loop of get_block_region: one lookup for each chunk k.. of the
\* chunks overlapping the cuboid.  out.lookups lists the chunk coordinates
\* looked up so far.
RECURSIVE CopyChunks(_, _, _, _, _, _, _)
CopyChunks(rs, out, chunks, k, min, max, size) ==
    IF k > Len(chunks) \/ ~out.ok THEN out
    ELSE LET chunk_coords  == chunks[k]
             region_coords == VShr(chunk_coords, ChunkShift)
             chunk_index   == LinearIndex(VAnd15(chunk_coords))
             chunk         == FindChunk(rs, region_coords, chunk_index)
             sub           == SubCuboid(chunk_coords, min, max)
             blocks        == CuboidIterator(sub[1], sub[2])
         IN  CopyChunks(rs,
                 CopyBlocks([out EXCEPT !.lookups = Append(@, chunk_coords)],
                            blocks, 1, Len(blocks), chunk, min, size),
                 chunks, k + 1, min, max, size)

\* The output indices the two loops of get_block_region write for the chunks
\* k.., in the order of the writes.
RECURSIVE WrittenIndices(_, _, _, _, _)
WrittenIndices(chunks, k, min, max, size) ==
    IF k > Len(chunks) THEN <<>>
    ELSE LET sub    == SubCuboid(chunks[k], min, max)
             blocks == CuboidIterator(sub[1], sub[2])
         IN  [i \in 1 .. Len(blocks) |-> DataIndex(blocks[i], min, size)]
                 \o WrittenIndices(chunks, k + 1, min, max, size)

\* get_block_region that takes its first corner for the minimum and its
\* second for the maximum.
get_block_region_ordered(rs, region) ==
    LET min  == region[1]
        max  == region[2]
        size == VAddS(VSub(max, min), 1)
        block_count == size[1] * size[2] * size[3]
        data == [i \in 1 .. block_count |-> BlockDefault] \o <<>>
    IN  CopyChunks(rs, [data |-> data, ok |-> TRUE, lookups |-> <<>>],
                   CuboidIterator(VShr(min, ChunkShift), VShr(max, ChunkShift)),
                   1, min, max, size)

\* get_block_region(region): [data, ok], the returned vector and whether the
\* call returned at all.
get_block_region(rs, region) ==
    LET min  == VMin(region[1], region[2])
        max  == VMax(region[1], region[2])
        size == VAddS(VSub(max, min), 1)
        block_count == size[1] * size[2] * size[3]
        data == [i \in 1 .. block_count |-> BlockDefault] \o <<>>
    IN  CopyChunks(rs, [data |-> data, ok |-> TRUE, lookups |-> <<>>],
                   CuboidIterator(VShr(min, ChunkShift), VShr(max, ChunkShift)),
                   1, min, max, size)

----------------------------------------------------------------------------
(* The inputs the operations are called with. *)

\* Block positions: those of the tests, their mirror images, and positions on
\* both sides of chunk and region borders.
BlockPositions ==
    { <<15, 128, -3>>, <<-15, -128, 3>>, <<-1, 11, 4>>, <<-1, 11, 5>>,
      <<0, 0, 0>>, <<16, 0, 0>> }

\* Positions that are read: the written ones, the position with the same chunk
\* and block index as (15, 128, -3) in another region, and neighbours of the
\* written positions in other chunks.
ProbePositions ==
    BlockPositions \cup { <<15, 128, 253>>, <<-17, 11, 4>>, <<0, 0, -1>> }

\* Cuboids, as pairs of opposite corners in any order: that of the test (four
\* chunks of two regions, one of them written), one block, a line through
\* three chunks and two regions, and a cuboid around the origin that meets
\* eight chunks of eight regions.
Cuboids ==
    { << <<-3, 12, 2>>, <<0, 10, 5>> >>,
      << <<-1, 11, 5>>, <<-1, 11, 5>> >>,
      << <<17, 0, 0>>, <<-2, 0, 0>> >>,
      << <<0, -1, 0>>, <<-1, 0, -1>> >>,
      << <<14, 129, -4>>, <<16, 127, -2>> >> }

\* Payload values: the default and the value written by the test.
BlockValues == {BlockDefault, 7}

----------------------------------------------------------------------------
(* The operations on a voxel world. *)

\* The variables of the network plugin, where it plays no part.
NoNetwork ==
    /\ server_events = <<>>
    /\ client_list = <<>>
    /\ clients = {}
    /\ reserved = 0

\* The variables of the tracker and the scheduler, where they play no part.
NoScheduler ==
    /\ states = [w \in {} |-> <<>>]
    /\ anchors = <<>>
    /\ load_chunk_ev = <<>>
    /\ requested = {}
    /\ ticks = 0
    /\ sets = 0
    /\ prev_val = <<>>

WorldInit ==
    /\ NoNetwork
    /\ NoScheduler
    /\ regions = <<>>
    /\ writes = 0
    /\ shadow = <<>>
    /\ last_op = "none"
    /\ last_pos = <<0, 0, 0>>
    /\ last_val = BlockDefault
    /\ ret = <<>>
    /\ panicked = FALSE

\* A call of set_block_data; prev_val keeps the value the position held before.
SetBlockData ==
    /\ writes < MaxWrites
    /\ \E p \in BlockPositions, v \in BlockValues :
        /\ regions' = set_block_data(regions, p, v)
        /\ shadow' = [q \in DOMAIN shadow \cup {p} |->
                          IF q = p THEN v ELSE shadow[q]]
        /\ prev_val' = <<get_block_data(regions, p)>>
        /\ last_pos' = p
        /\ last_val' = v
    /\ writes' = writes + 1
    /\ last_op' = "set_block_data"
    /\ ret' = <<>>
    /\ panicked' = FALSE
    /\ UNCHANGED net
    /\ UNCHANGED <<states, anchors, load_chunk_ev, requested, ticks, sets>>

\* A read leaves the world as it is: reads are taken in a fresh world or
\* after a write, a read after a read reaches no other world.
GetBlockData ==
    /\ last_op \in {"none", "set_block_data"}
    /\ \E p \in ProbePositions :
        /\ ret' = <<get_block_data(regions, p)>>
        /\ last_pos' = p
    /\ last_op' = "get_block_data"
    /\ panicked' = FALSE
    /\ UNCHANGED <<regions, writes, shadow, last_val>>
    /\ UNCHANGED net
    /\ UNCHANGED <<states, anchors, load_chunk_ev, requested, ticks, sets, prev_val>>

\* A call of get_block_region; prev_val keeps the chunk coordinates looked up
\* and the output indices written, in their order.
GetBlockRegion ==
    /\ last_op \in {"none", "set_block_data"}
    /\ \E region \in Cuboids :
        \E out \in {get_block_region(regions, region)} :
            /\ ret' = out.data
            /\ panicked' = ~out.ok
            /\ last_pos' = region
            /\ prev_val' =
                   [lookups |-> out.lookups,
                    written |->
                        LET min == VMin(region[1], region[2])
                            max == VMax(region[1], region[2])
                        IN  WrittenIndices(
                                CuboidIterator(VShr(min, ChunkShift),
                                               VShr(max, ChunkShift)),
                                1, min, max, VAddS(VSub(max, min), 1))]
    /\ last_op' = "get_block_region"
    /\ UNCHANGED <<regions, writes, shadow, last_val>>
    /\ UNCHANGED net
    /\ UNCHANGED <<states, anchors, load_chunk_ev, requested, ticks, sets>>

WorldNext == SetBlockData \/ GetBlockData \/ GetBlockRegion

WorldSpec == WorldInit /\ [][WorldNext]_vars

----------------------------------------------------------------------------
(* The chunk load-state tracker. *)

\* ChunkState
ChunkStates == {"Unloaded", "Loading", "Loaded", "Unloading"}

\* Region::CHUNK.point_to_index(p): the index x * 256 + y * 16 + z of a point
\* of the 16 x 16 x 16 region at the origin, None for a point outside it.
PointToIndexChunk(p) ==
    IF \A a \in 1 .. 3 : 0 <= p[a] /\ p[a] <= LocalMask
    THEN Some(LinearIndex(p)) ELSE None

\* [ChunkState::Unloaded; 4096]
AllUnloaded == [i \in 0 .. ArrayLen - 1 |-> "Unloaded"]

\* VoxelChunkStateRegion::new(region_coords)
VoxelChunkStateRegionNew(region_coords) ==
    [chunks |-> AllUnloaded, region_coords |-> region_coords]

\* Vec::remove that takes out the first element whatever the index.
RemoveFirst(seq, i) == SubSeq(seq, 2, Len(seq))

\* remove(reg_index) on a Vec, for the 1-based index i.
RemoveAt(seq, i) ==
    [k \in 1 .. Len(seq) - 1 |-> IF k < i THEN seq[k] ELSE seq[k + 1]]

\* VoxelChunkStates::get_state on the region list st.  The index is unwrapped:
\* "panic" stands for the panic of unwrap() on None.
get_state(st, chunk_coords) ==
    LET region_coords == VShr(chunk_coords, ChunkShift)
        index == PointToIndexChunk(VAnd15(chunk_coords))
        r     == FindRegion(st, region_coords)
    IN  IF index = None THEN "panic"
        ELSE IF r = 0 THEN "Unloaded"
        ELSE st[r].chunks[index[1]]

\* set_state that writes into an existing region only a state other than
\* Unloaded.
set_state_keeps_loaded(st, chunk_coords, state) ==
    LET region_coords == VShr(chunk_coords, ChunkShift)
        index == PointToIndexChunk(VAnd15(chunk_coords))
        r     == FindRegion(st, region_coords)
    IN  IF index = None THEN st
        ELSE IF r # 0
        THEN IF state # "Unloaded"
             THEN [st EXCEPT ![r].chunks[index[1]] = state]
             ELSE st
        ELSE IF state # "Unloaded"
        THEN Append(st, [VoxelChunkStateRegionNew(region_coords)
                             EXCEPT !.chunks[index[1]] = state])
        ELSE st

\* set_state without the removal of a region that became all Unloaded.
set_state_no_prune(st, chunk_coords, state) ==
    LET region_coords == VShr(chunk_coords, ChunkShift)
        index == PointToIndexChunk(VAnd15(chunk_coords))
        r     == FindRegion(st, region_coords)
    IN  IF index = None THEN st
        ELSE IF r # 0
        THEN [st EXCEPT ![r].chunks[index[1]] = state]
        ELSE IF state # "Unloaded"
        THEN Append(st, [VoxelChunkStateRegionNew(region_coords)
                             EXCEPT !.chunks[index[1]] = state])
        ELSE st

\* VoxelChunkStates::set_state on the region list st: the region list after
\* the call.  Where the unwrap of the index panics the list stays as it is;
\* the callers record the panic.
set_state(st, chunk_coords, state) ==
    LET region_coords == VShr(chunk_coords, ChunkShift)
        index == PointToIndexChunk(VAnd15(chunk_coords))
        r     == FindRegion(st, region_coords)
    IN  IF index = None THEN st
        ELSE IF r # 0
        THEN LET stored == [st EXCEPT ![r].chunks[index[1]] = state]
             IN  IF stored[r].chunks = AllUnloaded
                 THEN RemoveAt(stored, r)
                 ELSE stored
        ELSE IF state # "Unloaded"
        THEN Append(st, [VoxelChunkStateRegionNew(region_coords)
                             EXCEPT !.chunks[index[1]] = state])
        ELSE st

\* The world entities that carry a VoxelChunkStates component.
Worlds == {"w1", "w2"}

\* Chunk coordinates whose state is set: two chunks of the region
\* (-1, -1, -1) and the chunk of the region (0, 0, 0) that has the local
\* offset of the first.
TrackerPositions == { <<-1, -1, -2>>, <<-2, -1, -2>>, <<15, 15, 14>> }

\* Chunk coordinates whose state is read: those, and a chunk of the region
\* (-1, -1, -1) that is never set.
TrackerProbes == TrackerPositions \cup { <<-1, -1, -3>> }

TrackerInit ==
    /\ NoNetwork
    /\ regions = <<>>
    /\ states = [w \in {"w1"} |-> <<>>]
    /\ anchors = <<>>
    /\ load_chunk_ev = <<>>
    /\ requested = {}
    /\ ticks = 0
    /\ sets = 0
    /\ prev_val = <<>>
    /\ writes = 0
    /\ shadow = <<>>
    /\ last_op = "none"
    /\ last_pos = <<0, 0, 0>>
    /\ last_val = "Unloaded"
    /\ ret = <<>>
    /\ panicked = FALSE

\* A call of set_state on the tracker of w1.
SetState ==
    /\ \E c \in TrackerPositions, s \in ChunkStates :
        /\ prev_val' = <<get_state(states["w1"], c)>>
        /\ states' = [states EXCEPT !["w1"] = set_state(@, c, s)]
        /\ shadow' = [q \in DOMAIN shadow \cup {c} |->
                          IF q = c THEN s ELSE shadow[q]]
        /\ last_pos' = c
        /\ last_val' = s
        /\ panicked' = (PointToIndexChunk(VAnd15(c)) = None)
    /\ last_op' = "set_state"
    /\ ret' = <<>>
    /\ UNCHANGED net
    /\ UNCHANGED <<regions, anchors, load_chunk_ev, requested, ticks, sets, writes>>

\* A call of get_state on the tracker of w1, in a fresh tracker or after a
\* set_state.
GetState ==
    /\ last_op \in {"none", "set_state"}
    /\ \E c \in TrackerProbes :
        /\ ret' = <<get_state(states["w1"], c)>>
        /\ panicked' = (get_state(states["w1"], c) = "panic")
        /\ last_pos' = c
    /\ last_op' = "get_state"
    /\ UNCHANGED net
    /\ UNCHANGED <<regions, states, anchors, load_chunk_ev, requested, ticks,
                   sets, prev_val, writes, shadow, last_val>>

TrackerNext == SetState \/ GetState

TrackerSpec == TrackerInit /\ [][TrackerNext]_vars

----------------------------------------------------------------------------
(* The streaming scheduler. *)

\* A Vec3 is a triple of numbers in tenths: 44.0 is 440, -4.7 is -47.
PosScale == 10

\* f32 as i32, the cast of Vec3::as_ivec3: the fraction is dropped, towards
\* zero.
AsI32(t) == IF t >= 0 THEN t \div PosScale ELSE -((-t) \div PosScale)
AsIVec3(v) == <<AsI32(v[1]), AsI32(v[2]), AsI32(v[3])>>

\* Region::from_points(min, max).iter(): the points of the inclusive cuboid,
\* x outermost and z innermost.
RegionIter(min, max) == CuboidIterator(min, max)

\* ChunkAnchor::new(world, radius, max_radius), with the translation of the
\* Position of the same entity.
ChunkAnchorNew(world, radius, max_radius, translation) ==
    [world |-> Some(world), radius |-> radius, max_radius |-> max_radius,
     translation |-> translation]

\* The chunk an anchor's position is converted to.
AnchorChunk(translation) == VShr(AsIVec3(translation), ChunkShift)

\* The corners of the cuboid of chunks an anchor loads, with the upper
\* corner one chunk short.
AnchorCuboidShort(anchor) ==
    LET pos == AnchorChunk(anchor.translation)
    IN  <<VAddS(pos, -anchor.radius), VAddS(pos, anchor.radius - 1)>>

\* The corners of the cuboid of chunks an anchor loads.
AnchorCuboid(anchor) ==
    LET pos == AnchorChunk(anchor.translation)
    IN  <<VAddS(pos, -anchor.radius), VAddS(pos, anchor.radius)>>

\* The body of the loop over the chunks that sends the event and leaves the
\* state as it is.
VisitChunkNoSet(acc, chunk, world) ==
    LET state == get_state(acc.states[world], chunk)
    IN  IF state = "panic" THEN [acc EXCEPT !.ok = FALSE]
        ELSE IF state = "Unloaded"
        THEN [acc EXCEPT
                 !.events = Append(@, [chunk_coords |-> chunk, world |-> world])]
        ELSE acc

\* The body of the loop over the chunks that requests every chunk that is not
\* Loaded.
VisitChunkNotLoaded(acc, chunk, world) ==
    LET state == get_state(acc.states[world], chunk)
    IN  IF state = "panic" THEN [acc EXCEPT !.ok = FALSE]
        ELSE IF state # "Loaded"
        THEN [acc EXCEPT
                 !.states[world] = set_state(@, chunk, "Loading"),
                 !.events = Append(@, [chunk_coords |-> chunk, world |-> world])]
        ELSE acc

\* The body of the loop over the chunks that names the first world in the
\* event, whatever the world of the anchor.
VisitChunkEventOfFirstWorld(acc, chunk, world) ==
    LET state == get_state(acc.states[world], chunk)
    IN  IF state = "panic" THEN [acc EXCEPT !.ok = FALSE]
        ELSE IF state = "Unloaded"
        THEN [acc EXCEPT
                 !.states[world] = set_state(@, chunk, "Loading"),
                 !.events = Append(@, [chunk_coords |-> chunk, world |-> "w1"])]
        ELSE acc

\* The body of the loop over the chunks of one anchor: acc.states are the
\* trackers, acc.events the events sent so far, acc.ok turns FALSE when the
\* system panics.
VisitChunk(acc, chunk, world) ==
    LET state == get_state(acc.states[world], chunk)
    IN  IF state = "panic" THEN [acc EXCEPT !.ok = FALSE]
        ELSE IF state = "Unloaded"
        THEN [acc EXCEPT
                 !.states[world] = set_state(@, chunk, "Loading"),
                 !.events = Append(@, [chunk_coords |-> chunk, world |-> world])]
        ELSE acc

\* The loop over the chunks k.. of one anchor's cuboid; a panic ends it.
RECURSIVE VisitChunks(_, _, _, _)
VisitChunks(acc, chunks, k, world) ==
    IF k > Len(chunks) \/ ~acc.ok THEN acc
    ELSE VisitChunks(VisitChunk(acc, chunks[k], world), chunks, k + 1, world)

\* The loop over the anchors k..; an anchor without a world is skipped, and
\* the unwrap of the tracker of a world that has none panics.
RECURSIVE VisitAnchors(_, _, _)
VisitAnchors(acc, as, k) ==
    IF k > Len(as) \/ ~acc.ok THEN acc
    ELSE IF as[k].world = None THEN VisitAnchors(acc, as, k + 1)
    ELSE IF as[k].world[1] \notin DOMAIN acc.states
    THEN [acc EXCEPT !.ok = FALSE]
    ELSE LET cuboid == AnchorCuboid(as[k])
         IN  VisitAnchors(
                 VisitChunks(acc, RegionIter(cuboid[1], cuboid[2]), 1,
                             as[k].world[1]),
                 as, k + 1)

\* load_chunks: the trackers and the events after one run of the system.
load_chunks(sts, as) ==
    VisitAnchors([states |-> sts, events |-> <<>>, ok |-> TRUE], as, 1)

\* unload_chunks: the body of the system is todo!(), which panics before a
\* tracker is touched or an event is sent.
unload_chunks(sts, as) == [states |-> sts, events |-> <<>>, ok |-> FALSE]

\* The positions of the anchors: that of the test, (44.0, 2.1, -4.7) in
\* chunk (2, 0, -1), and (44.0, 2.1, -0.7), whose z lies between -1 and 0.
TestTranslation == <<440, 21, -47>>
NegTranslation == <<440, 21, -7>>

\* The anchors of a run: the one of the test; one of radius 0; two of one
\* world whose cuboids share two planes of chunks, the second with a max
\* radius below its radius; two of two worlds at one position; one without a
\* world before one of radius 0.
AnchorSetups ==
    { << ChunkAnchorNew("w1", 1, 2, TestTranslation) >>,
      << ChunkAnchorNew("w1", 0, 0, TestTranslation) >>,
      << ChunkAnchorNew("w1", 1, 2, TestTranslation),
         ChunkAnchorNew("w1", 1, 0, NegTranslation) >>,
      << ChunkAnchorNew("w1", 1, 2, TestTranslation),
         ChunkAnchorNew("w2", 1, 2, TestTranslation) >>,
      << [world |-> None, radius |-> 1, max_radius |-> 2,
          translation |-> TestTranslation],
         ChunkAnchorNew("w1", 0, 1, NegTranslation) >> }

\* The chunks whose state other systems change: the chunk of the test anchor
\* and a chunk that is in no anchor's cuboid.
ChangedChunks == { <<2, 0, -1>>, <<5, 0, -1>> }

SchedInit ==
    /\ NoNetwork
    /\ regions = <<>>
    /\ states = [w \in Worlds |-> <<>>]
    /\ anchors \in AnchorSetups
    /\ load_chunk_ev = <<>>
    /\ requested = {}
    /\ ticks = 0
    /\ sets = 0
    /\ prev_val = <<>>
    /\ writes = 0
    /\ shadow = <<>>
    /\ last_op = "none"
    /\ last_pos = <<0, 0, 0>>
    /\ last_val = "Unloaded"
    /\ ret = <<>>
    /\ panicked = FALSE

\* One tick: the system load_chunks runs to its end or panics.  prev_val keeps what
\* the tick started from: the operation before it, the pairs requested and
\* whether every tracker was entirely Unloaded.
LoadChunks ==
    /\ ~panicked
    /\ ticks < MaxTicks
    /\ \E out \in {load_chunks(states, anchors)} :
           /\ states' = out.states
           /\ load_chunk_ev' = out.events
           /\ panicked' = ~out.ok
           /\ requested' = requested \cup
                  {<<out.events[i].world, out.events[i].chunk_coords>> :
                      i \in DOMAIN out.events}
    /\ prev_val' = [op |-> last_op, requested |-> requested,
                    fresh |-> \A w \in DOMAIN states : states[w] = <<>>]
    /\ ticks' = ticks + 1
    /\ last_op' = "load_chunks"
    /\ ret' = <<>>
    /\ UNCHANGED net
    /\ UNCHANGED <<regions, anchors, sets, writes, shadow, last_pos, last_val>>

\* Another system (the chunk loader) changes the state of a chunk of w1 with
\* set_state; any state may follow any state.
ChunkStateChanged ==
    /\ ~panicked
    /\ sets < MaxSets
    /\ \E c \in ChangedChunks, s \in ChunkStates :
        /\ states' = [states EXCEPT !["w1"] = set_state(@, c, s)]
        /\ requested' = IF s = "Unloaded" THEN requested \ {<<"w1", c>>}
                                            ELSE requested
        /\ last_pos' = c
        /\ last_val' = s
        /\ panicked' = (PointToIndexChunk(VAnd15(c)) = None)
    /\ sets' = sets + 1
    /\ last_op' = "set_state"
    /\ prev_val' = <<>>
    /\ ret' = <<>>
    /\ UNCHANGED net
    /\ UNCHANGED <<regions, anchors, load_chunk_ev, ticks, writes, shadow>>

\* An anchor's entity moves to another position.
MoveAnchor ==
    /\ ~panicked
    /\ last_op = "load_chunks"
    /\ \E i \in DOMAIN anchors, t \in {TestTranslation, NegTranslation} :
        /\ anchors[i].translation # t
        /\ anchors' = [anchors EXCEPT ![i].translation = t]
    /\ last_op' = "move"
    /\ prev_val' = <<>>
    /\ ret' = <<>>
    /\ panicked' = FALSE
    /\ UNCHANGED net
    /\ UNCHANGED <<regions, states, load_chunk_ev, requested, ticks, sets,
                   writes, shadow, last_pos, last_val>>

\* The system unload_chunks runs, in an app that has added it.  ret is the
\* list of the UnloadChunkEvents sent, prev_val the trackers the run started
\* from.  A panic of a system ends the app.
UnloadChunks ==
    /\ ~panicked
    /\ \E out \in {unload_chunks(states, anchors)} :
           /\ states' = out.states
           /\ ret' = out.events
           /\ panicked' = ~out.ok
    /\ prev_val' = states
    /\ last_op' = "unload_chunks"
    /\ UNCHANGED net
    /\ UNCHANGED <<regions, anchors, load_chunk_ev, requested, ticks, sets,
                   writes, shadow, last_pos, last_val>>

SchedNext == LoadChunks \/ ChunkStateChanged \/ MoveAnchor \/ UnloadChunks

SchedSpec == SchedInit /\ [][SchedNext]_vars

----------------------------------------------------------------------------
(* Block shapes and their occlusion flags (awgen_world_mesh, block_data.rs). *)

\* The flags of BlockOcclusion, a set of bits in a u8.
INNER == 1
POS_X == 2
NEG_X == 4
POS_Y == 8
NEG_Y == 16
POS_Z == 32
NEG_Z == 64

\* The defined flags, and the bits of a flag value.
OcclusionFlags == {INNER, POS_X, NEG_X, POS_Y, NEG_Y, POS_Z, NEG_Z}
Bits(o) == {b \in OcclusionFlags : (o \div b) % 2 = 1}
FromBits(S) ==
    (IF INNER \in S THEN INNER ELSE 0) + (IF POS_X \in S THEN POS_X ELSE 0)
    + (IF NEG_X \in S THEN NEG_X ELSE 0) + (IF POS_Y \in S THEN POS_Y ELSE 0)
    + (IF NEG_Y \in S THEN NEG_Y ELSE 0) + (IF POS_Z \in S THEN POS_Z ELSE 0)
    + (IF NEG_Z \in S THEN NEG_Z ELSE 0)

\* BlockOcclusion::empty(), self.contains(other), self | other (also |= and
\* insert).
OcclusionEmpty == FromBits({})
contains(self, other) == Bits(other) \subseteq Bits(self)
BitOr(self, other) == FromBits(Bits(self) \cup Bits(other))

\* opposite_face with the branch of POS_X setting POS_X again.
opposite_face_pos_x_kept(self) ==
    LET v1 == IF contains(self, INNER) THEN BitOr(OcclusionEmpty, INNER)
              ELSE OcclusionEmpty
        v2 == IF contains(self, POS_X) THEN BitOr(v1, POS_X) ELSE v1
        v3 == IF contains(self, NEG_X) THEN BitOr(v2, POS_X) ELSE v2
        v4 == IF contains(self, POS_Y) THEN BitOr(v3, NEG_Y) ELSE v3
        v5 == IF contains(self, NEG_Y) THEN BitOr(v4, POS_Y) ELSE v4
        v6 == IF contains(self, POS_Z) THEN BitOr(v5, NEG_Z) ELSE v5
        v7 == IF contains(self, NEG_Z) THEN BitOr(v6, POS_Z) ELSE v6
    IN  v7

\* BlockOcclusion::opposite_face: value after each of the seven tests.
opposite_face(self) ==
    LET v1 == IF contains(self, INNER) THEN BitOr(OcclusionEmpty, INNER)
              ELSE OcclusionEmpty
        v2 == IF contains(self, POS_X) THEN BitOr(v1, NEG_X) ELSE v1
        v3 == IF contains(self, NEG_X) THEN BitOr(v2, POS_X) ELSE v2
        v4 == IF contains(self, POS_Y) THEN BitOr(v3, NEG_Y) ELSE v3
        v5 == IF contains(self, NEG_Y) THEN BitOr(v4, POS_Y) ELSE v4
        v6 == IF contains(self, POS_Z) THEN BitOr(v5, NEG_Z) ELSE v5
        v7 == IF contains(self, NEG_Z) THEN BitOr(v6, POS_Z) ELSE v6
    IN  v7

\* BlockShape, by the discriminants of the enum; Empty is the default, and
\* with it a VoxelWorld<BlockShape> has the payload default of the model.
Empty == BlockDefault
Cube == 1
Custom == 2
BlockShapes == {Empty, Cube, Custom}

\* BlockShape::get_occlusion
get_occlusion(shape) ==
    IF shape = Empty THEN INNER
    ELSE IF shape = Custom THEN OcclusionEmpty
    ELSE FromBits({NEG_X, POS_X, NEG_Y, POS_Y, NEG_Z, POS_Z})

\* ChunkMesher::default()
ChunkMesherDefault ==
    [indices |-> <<>>, vertices |-> <<>>, normals |-> <<>>, uvs |-> <<>>]

\* usize as u8
AsU8(n) == n % 256

\* usize as u16
AsU16(n) == n % 65536

\* VERTS, the corners of the unit cube; VERTS[i] of the code is Verts[i + 1].
Verts ==
    << <<0, 0, 0>>, <<0, 0, 1>>, <<0, 1, 0>>, <<0, 1, 1>>,
       <<1, 0, 0>>, <<1, 0, 1>>, <<1, 1, 0>>, <<1, 1, 1>> >>

\* The six tests of write_cube with the corners of the POS_Z quad passed in
\* the opposite order.
CubeFacesClockwise ==
    << [flag |-> NEG_X, v |-> <<0, 1, 3, 2>>, normal |-> <<-1, 0, 0>>],
       [flag |-> POS_X, v |-> <<4, 6, 7, 5>>, normal |-> <<1, 0, 0>>],
       [flag |-> NEG_Y, v |-> <<0, 4, 5, 1>>, normal |-> <<0, -1, 0>>],
       [flag |-> POS_Y, v |-> <<2, 3, 7, 6>>, normal |-> <<0, 1, 0>>],
       [flag |-> NEG_Z, v |-> <<0, 2, 6, 4>>, normal |-> <<0, 0, -1>>],
       [flag |-> POS_Z, v |-> <<1, 3, 7, 5>>, normal |-> <<0, 0, 1>>] >>

\* The six tests of write_cube in their order: the flag tested, the corners
\* passed to quad and the normal.
CubeFaces ==
    << [flag |-> NEG_X, v |-> <<0, 1, 3, 2>>, normal |-> <<-1, 0, 0>>],
       [flag |-> POS_X, v |-> <<4, 6, 7, 5>>, normal |-> <<1, 0, 0>>],
       [flag |-> NEG_Y, v |-> <<0, 4, 5, 1>>, normal |-> <<0, -1, 0>>],
       [flag |-> POS_Y, v |-> <<2, 3, 7, 6>>, normal |-> <<0, 1, 0>>],
       [flag |-> NEG_Z, v |-> <<0, 2, 6, 4>>, normal |-> <<0, 0, -1>>],
       [flag |-> POS_Z, v |-> <<1, 5, 7, 3>>, normal |-> <<0, 0, 1>>] >>

\* The closure quad with the vertex count taken after the vertices are pushed.
quad_count_after(mesh, pos, v, normal) ==
    LET vert_count == AsU16(Len(mesh.vertices) + 4)
    IN  [indices  |-> mesh.indices \o
                          <<vert_count, vert_count + 1, vert_count + 2,
                            vert_count, vert_count + 2, vert_count + 3>>,
         vertices |-> mesh.vertices \o
                          <<VAdd(pos, Verts[v[1] + 1]), VAdd(pos, Verts[v[2] + 1]),
                            VAdd(pos, Verts[v[3] + 1]), VAdd(pos, Verts[v[4] + 1])>>,
         normals  |-> mesh.normals \o <<normal, normal, normal, normal>>,
         uvs      |-> mesh.uvs \o <<<<0, 0>>, <<0, 1>>, <<1, 1>>, <<1, 0>>>>]

\* The closure quad of write_cube: six indices from the vertex count at the
\* call, then four vertices, four normals and four uvs.
quad(mesh, pos, v, normal) ==
    LET vert_count == AsU16(Len(mesh.vertices))
    IN  [indices  |-> mesh.indices \o
                          <<vert_count, vert_count + 1, vert_count + 2,
                            vert_count, vert_count + 2, vert_count + 3>>,
         vertices |-> mesh.vertices \o
                          <<VAdd(pos, Verts[v[1] + 1]), VAdd(pos, Verts[v[2] + 1]),
                            VAdd(pos, Verts[v[3] + 1]), VAdd(pos, Verts[v[4] + 1])>>,
         normals  |-> mesh.normals \o <<normal, normal, normal, normal>>,
         uvs      |-> mesh.uvs \o <<<<0, 0>>, <<0, 1>>, <<1, 1>>, <<1, 0>>>>]

\* The tests k.. of write_cube: a quad for each face whose flag is not in the
\* occlusion.
RECURSIVE write_faces(_, _, _, _)
write_faces(mesh, occlusion, pos, k) ==
    IF k > Len(CubeFaces) THEN mesh
    ELSE write_faces(
             IF ~contains(occlusion, CubeFaces[k].flag)
             THEN quad(mesh, pos, CubeFaces[k].v, CubeFaces[k].normal)
             ELSE mesh,
             occlusion, pos, k + 1)

\* write_cube
write_cube(mesh, occlusion, pos) == write_faces(mesh, occlusion, pos, 1)

\* BlockShape::push_to_mesh
push_to_mesh(shape, mesh, occlusion, pos) ==
    IF shape = Cube THEN write_cube(mesh, occlusion, pos) ELSE mesh

----------------------------------------------------------------------------
(* The chunk mesher (awgen_world_mesh, mesher.rs). *)

\* Region::from_size(min, size): the cuboid of the given size whose minimum
\* corner is min.
RegionFromSize(min, size) == [min |-> min, size |-> size]

\* Region::CHUNK, the 16 x 16 x 16 region at the origin.
RegionCHUNK == RegionFromSize(<<0, 0, 0>>, <<16, 16, 16>>)

\* The opposite corners of a region, the form get_block_region takes.
RegionCorners(region) ==
    <<region.min, VAddS(VAdd(region.min, region.size), -1)>>

\* region.point_to_index(point): the row-major index of a point of the region
\* relative to its minimum corner, None for a point outside the region.  For
\* Region::CHUNK this is PointToIndexChunk.
PointToIndex(region, point) ==
    LET rel == VSub(point, region.min)
    IN  IF \A a \in 1 .. 3 : 0 <= rel[a] /\ rel[a] < region.size[a]
        THEN Some(rel[1] * region.size[2] * region.size[3]
                  + rel[2] * region.size[3] + rel[3])
        ELSE None

\* The six calls of check_dir in their order: the offset and the flag.
CheckDirs ==
    << [offset |-> <<-1, 0, 0>>, flag |-> NEG_X],
       [offset |-> <<1, 0, 0>>,  flag |-> POS_X],
       [offset |-> <<0, -1, 0>>, flag |-> NEG_Y],
       [offset |-> <<0, 1, 0>>,  flag |-> POS_Y],
       [offset |-> <<0, 0, -1>>, flag |-> NEG_Z],
       [offset |-> <<0, 0, 1>>,  flag |-> POS_Z] >>

\* The closure check_dir: acc.occlusion is the occlusion collected so far,
\* acc.ok turns FALSE when the unwrap of the index panics.  shape_data[i] of
\* the code is shape_data[i + 1].
check_dir(acc, shape_data, region, pos, offset, flag) ==
    LET index == PointToIndex(region, VAdd(pos, offset))
    IN  IF index = None THEN [acc EXCEPT !.ok = FALSE]
        ELSE IF contains(get_occlusion(shape_data[index[1] + 1]),
                         opposite_face(flag))
        THEN [acc EXCEPT !.occlusion = BitOr(@, flag)]
        ELSE acc

\* The calls k.. of check_dir for one block; a panic ends them.
RECURSIVE check_dirs(_, _, _, _, _)
check_dirs(acc, shape_data, region, pos, k) ==
    IF k > Len(CheckDirs) \/ ~acc.ok THEN acc
    ELSE check_dirs(check_dir(acc, shape_data, region, pos,
                              CheckDirs[k].offset, CheckDirs[k].flag),
                    shape_data, region, pos, k + 1)

\* The body of the loop of generate_chunk_mesh for one position of
\* Region::CHUNK: acc.mesher is the ChunkMesher, acc.ok turns FALSE when an
\* unwrap panics.
MeshBlock(acc, shape_data, region, pos) ==
    LET block_index == PointToIndex(region, pos)
    IN  IF block_index = None THEN [acc EXCEPT !.ok = FALSE]
        ELSE IF contains(get_occlusion(shape_data[block_index[1] + 1]), INNER)
        THEN acc
        ELSE LET occ == check_dirs([occlusion |-> OcclusionEmpty, ok |-> TRUE],
                                   shape_data, region, pos, 1)
             IN  IF ~occ.ok THEN [acc EXCEPT !.ok = FALSE]
                 ELSE [acc EXCEPT !.mesher =
                          push_to_mesh(shape_data[block_index[1] + 1], @,
                                       occ.occlusion, pos)]

\* The loop of generate_chunk_mesh over the positions lo..hi of
\* Region::CHUNK.iter(), in the iterator's order: the first half of the range,
\* then the second half.  A panic ends the loop.
RECURSIVE MeshBlocks(_, _, _, _, _, _)
MeshBlocks(acc, shape_data, region, positions, lo, hi) ==
    IF lo > hi \/ ~acc.ok THEN acc
    ELSE IF lo = hi THEN MeshBlock(acc, shape_data, region, positions[lo])
    ELSE LET mid == (lo + hi) \div 2
         IN  MeshBlocks(MeshBlocks(acc, shape_data, region, positions, lo, mid),
                        shape_data, region, positions, mid + 1, hi)

\* From<ChunkMesher> for Mesh: a triangle list with the four buffers as its
\* attributes and indices.
MeshFromChunkMesher(val) ==
    [topology |-> "TriangleList", positions |-> val.vertices,
     normals |-> val.normals, uvs |-> val.uvs, indices |-> val.indices]

\* The part of generate_chunk_mesh after the read of the shapes: read is what
\* get_block_region returned.
MeshRegion(read, region) ==
    IF ~read.ok THEN [mesher |-> ChunkMesherDefault, ok |-> FALSE]
    ELSE LET positions ==
                 RegionIter(RegionCHUNK.min,
                            VAddS(VAdd(RegionCHUNK.min, RegionCHUNK.size), -1))
         IN  MeshBlocks([mesher |-> ChunkMesherDefault, ok |-> TRUE],
                        read.data, region, positions, 1, Len(positions))

\* generate_chunk_mesh(chunk_coords, shapes): [mesh, ok], the Mesh returned
\* and whether the call returned at all.  The Region is handed to
\* get_block_region as its pair of corners.
generate_chunk_mesh(chunk_coords, shapes) ==
    LET region == RegionFromSize(VAddS(VShl(chunk_coords, ChunkShift), -1),
                                 <<18, 18, 18>>)
        done   == MeshRegion(get_block_region(shapes, RegionCorners(region)),
                             region)
    IN  [mesh |-> MeshFromChunkMesher(done.mesher), ok |-> done.ok]

\* A cube at every second position of the chunk (0, 0, 0), those whose
\* coordinates have an even sum: no two cubes share a face, so every face of
\* every cube is to be seen.
Chequerboard ==
    [k \in 1 .. ArrayLen \div 2 |->
        LET x == (k - 1) \div 128
            y == ((k - 1) \div 8) % 16
            z == 2 * ((k - 1) % 8) + ((x + y) % 2)
        IN  <<<<x, y, z>>, Cube>>] \o <<>>

\* Twelve cubes of the chunk (0, 0, 0) in two rows along x, none next to
\* another.
Lattice ==
    [k \in 1 .. 12 |->
        <<<<2 * ((k - 1) % 8), 8 + 2 * ((k - 1) \div 8), 8>>, Cube>>] \o <<>>

\* The blocks of a world of shapes, as lists of <<position, shape>> written in
\* this order into a fresh world: nothing; one cube inside chunk (0, 0, 0);
\* that cube and its six neighbours; a cube in the corner (0, 0, 0) of the
\* chunk with cubes behind three of its faces, in three other chunks; a cube
\* in the corner (15, 15, 15) with a cube inside the chunk, a custom block and
\* a cube in two other chunks; one cube inside chunk (1, 0, 0); a custom block
\* next to a cube; twelve cubes apart from each other.
ShapeScenes ==
    { <<>>,
      Lattice,
      << <<<<5, 5, 5>>, Cube>> >>,
      << <<<<5, 5, 5>>, Cube>>, <<<<4, 5, 5>>, Cube>>, <<<<6, 5, 5>>, Cube>>,
         <<<<5, 4, 5>>, Cube>>, <<<<5, 6, 5>>, Cube>>, <<<<5, 5, 4>>, Cube>>,
         <<<<5, 5, 6>>, Cube>> >>,
      << <<<<0, 0, 0>>, Cube>>, <<<<-1, 0, 0>>, Cube>>, <<<<0, -1, 0>>, Cube>>,
         <<<<0, 0, -1>>, Cube>> >>,
      << <<<<15, 15, 15>>, Cube>>, <<<<15, 15, 14>>, Cube>>,
         <<<<16, 15, 15>>, Custom>>, <<<<15, 16, 15>>, Cube>> >>,
      << <<<<21, 5, 5>>, Cube>> >>,
      << <<<<5, 5, 5>>, Custom>>, <<<<4, 5, 5>>, Cube>> >> }

\* The world after the writes lo..hi of a scene, in their order: the first
\* half of the range, then the second half.
RECURSIVE BuildWorld(_, _, _, _)
BuildWorld(rs, scene, lo, hi) ==
    IF lo > hi \/ Len(rs) < 0 THEN rs
    ELSE IF lo = hi THEN set_block_data(rs, scene[lo][1], scene[lo][2])
    ELSE LET mid == (lo + hi) \div 2
         IN  BuildWorld(BuildWorld(rs, scene, lo, mid), scene, mid + 1, hi)

\* The position where one more shape is written, and the chunks that are
\* meshed: the origin, its neighbour and a chunk of negative coordinates.
ShapePositions == { <<6, 5, 5>> }
MeshChunks == { <<0, 0, 0>>, <<1, 0, 0>>, <<-1, -1, -1>> }

\* A world of shapes built by set_block_data; shadow is the shape written at
\* each written position.
MeshInit ==
    /\ NoNetwork
    /\ NoScheduler
    /\ \E scene \in ShapeScenes :
        /\ regions = BuildWorld(<<>>, scene, 1, Len(scene))
        /\ shadow = [q \in {scene[k][1] : k \in DOMAIN scene} |->
                        (CHOOSE e \in {scene[k] : k \in DOMAIN scene} : e[1] = q)[2]]
    /\ writes = 0
    /\ last_op = "none"
    /\ last_pos = <<0, 0, 0>>
    /\ last_val = Empty
    /\ ret = <<>>
    /\ panicked = FALSE

\* One more call of set_block_data on the world of shapes.
SetBlockShape ==
    /\ last_op = "none"
    /\ \E p \in ShapePositions, shape \in BlockShapes :
        /\ regions' = set_block_data(regions, p, shape)
        /\ shadow' = [q \in DOMAIN shadow \cup {p} |->
                          IF q = p THEN shape ELSE shadow[q]]
        /\ prev_val' = <<get_block_data(regions, p)>>
        /\ last_pos' = p
        /\ last_val' = shape
    /\ writes' = writes + 1
    /\ last_op' = "set_block_data"
    /\ ret' = <<>>
    /\ panicked' = FALSE
    /\ UNCHANGED net
    /\ UNCHANGED <<states, anchors, load_chunk_ev, requested, ticks, sets>>

\* The calls of set_block_data that fill the chunk (0, 0, 0) of a fresh world
\* like a chequerboard.
FillChunk ==
    /\ last_op = "none"
    /\ regions = <<>>
    /\ regions' = BuildWorld(regions, Chequerboard, 1, Len(Chequerboard))
    /\ shadow' = [q \in {Chequerboard[k][1] : k \in DOMAIN Chequerboard} |-> Cube]
    /\ prev_val' = <<Empty>>
    /\ last_pos' = Chequerboard[Len(Chequerboard)][1]
    /\ last_val' = Cube
    /\ writes' = writes + Len(Chequerboard)
    /\ last_op' = "set_block_data"
    /\ ret' = <<>>
    /\ panicked' = FALSE
    /\ UNCHANGED net
    /\ UNCHANGED <<states, anchors, load_chunk_ev, requested, ticks, sets>>

\* A call of generate_chunk_mesh with (a clone of) the world of shapes; ret is
\* the Mesh returned, nothing when the call panicked.
GenerateChunkMesh ==
    /\ last_op \in {"none", "set_block_data"}
    /\ \E chunk_coords \in MeshChunks :
        \E out \in {generate_chunk_mesh(chunk_coords, regions)} :
            /\ ret' = IF out.ok THEN <<out.mesh>> ELSE <<>>
            /\ panicked' = ~out.ok
            /\ last_pos' = chunk_coords
    /\ last_op' = "generate_chunk_mesh"
    /\ UNCHANGED <<regions, writes, shadow, last_val>>
    /\ UNCHANGED net
    /\ UNCHANGED <<states, anchors, load_chunk_ev, requested, ticks, sets, prev_val>>

\* A call of opposite_face on any of the 128 flag values.
OppositeFace ==
    /\ last_op = "none"
    /\ regions = <<>>
    /\ \E f \in 0 .. 127 :
        /\ last_val' = f
        /\ ret' = <<opposite_face(f)>>
    /\ last_op' = "opposite_face"
    /\ UNCHANGED <<regions, writes, shadow, last_pos, panicked>>
    /\ UNCHANGED net
    /\ UNCHANGED <<states, anchors, load_chunk_ev, requested, ticks, sets, prev_val>>

\* A call of opposite_face on the value the last call returned; prev_val
\* keeps that value.
OppositeFaceAgain ==
    /\ last_op = "opposite_face"
    /\ ret' = <<opposite_face(ret[1])>>
    /\ prev_val' = ret
    /\ last_op' = "opposite_face_twice"
    /\ UNCHANGED <<regions, writes, shadow, last_pos, last_val, panicked>>
    /\ UNCHANGED net
    /\ UNCHANGED <<states, anchors, load_chunk_ev, requested, ticks, sets>>

MeshNext ==
    \/ SetBlockShape
    \/ FillChunk
    \/ GenerateChunkMesh
    \/ OppositeFace
    \/ OppositeFaceAgain

MeshSpec == MeshInit /\ [][MeshNext]_vars

----------------------------------------------------------------------------
(* The connection events of the server (awgen_network, server_events.rs). *)

\* The client ids of the exploration.
ClientIds == {1, 2}

\* The number of ServerEvents waiting for one run of server_socket_event.
MaxServerEvents == 3

\* The number of runs of server_socket_event in one behaviour.
MaxRuns == 3

\* ServerEvent::ClientConnected(id, _) and ServerEvent::ClientDisconnected(id)
ClientConnected(id) == [kind |-> "ClientConnected", id |-> id]
ClientDisconnected(id) == [kind |-> "ClientDisconnected", id |-> id]

\* client_list.iter().find(|(_, c)| c.id == id): the first entity of the
\* query whose socket has the id, as a sequence of at most one entity.
RECURSIVE find(_, _, _)
find(query, id, k) ==
    IF k > Len(query) THEN <<>>
    ELSE IF query[k].id = id THEN <<query[k].entity>>
    ELSE find(query, id, k + 1)

\* The commands of a run applied to the entities when the stage ends: a
\* spawn adds the entity with its ClientSocket, a despawn removes the entity.
RECURSIVE apply_commands(_, _, _)
apply_commands(list, commands, k) ==
    IF k > Len(commands) THEN list
    ELSE apply_commands(
             IF commands[k].op = "spawn"
             THEN Append(list, [entity |-> commands[k].entity, id |-> commands[k].id])
             ELSE SelectSeq(list, LAMBDA c : c.entity # commands[k].entity),
             commands, k + 1)

\* The loop of server_socket_event from the event k on. The query holds the
\* entities as they were before the run; commands.spawn reserves a new entity
\* and queues its creation; unwrap() panics when find returns None.
RECURSIVE handle_events(_, _, _, _)
handle_events(events, query, k, out) ==
    IF k > Len(events) \/ ~out.ok THEN out
    ELSE IF events[k].kind = "ClientConnected"
    THEN LET entity == out.reserved + 1
         IN  handle_events(events, query, k + 1,
                 [out EXCEPT
                     !.reserved = entity,
                     !.commands = Append(@, [op |-> "spawn", entity |-> entity,
                                             id |-> events[k].id]),
                     !.ev_connected = Append(@, entity)])
    ELSE LET found == find(query, events[k].id, 1)
         IN  IF found = <<>> THEN [out EXCEPT !.ok = FALSE]
             ELSE handle_events(events, query, k + 1,
                      [out EXCEPT
                          !.ev_disconnected = Append(@, found[1]),
                          !.commands = Append(@, [op |-> "despawn",
                                                  entity |-> found[1]])])

\* server_socket_event: one run of the system over the events not read yet.
server_socket_event(events, query, count) ==
    handle_events(events, query, 1,
        [ok |-> TRUE, reserved |-> count, commands |-> <<>>,
         ev_connected |-> <<>>, ev_disconnected |-> <<>>])

NetInit ==
    /\ NoScheduler
    /\ regions = <<>>
    /\ writes = 0
    /\ shadow = <<>>
    /\ last_op = "none"
    /\ last_pos = <<0, 0, 0>>
    /\ last_val = BlockDefault
    /\ ret = <<>>
    /\ panicked = FALSE
    /\ server_events = <<>>
    /\ client_list = <<>>
    /\ clients = {}
    /\ reserved = 0

\* The RenetServer accepts a client that it does not hold as connected and
\* sends ServerEvent::ClientConnected.
ClientConnects ==
    /\ ~panicked
    /\ Len(server_events) < MaxServerEvents
    /\ \E id \in ClientIds \ clients :
        /\ clients' = clients \cup {id}
        /\ server_events' = Append(server_events, ClientConnected(id))
    /\ last_op' = "client_connects"
    /\ UNCHANGED <<client_list, reserved>>
    /\ UNCHANGED <<regions, states, anchors, load_chunk_ev, requested, ticks, sets,
                   prev_val, writes, shadow, last_pos, last_val, panicked, ret>>

\* The RenetServer loses a client that it holds as connected and sends
\* ServerEvent::ClientDisconnected.
ClientDisconnects ==
    /\ ~panicked
    /\ Len(server_events) < MaxServerEvents
    /\ \E id \in clients :
        /\ clients' = clients \ {id}
        /\ server_events' = Append(server_events, ClientDisconnected(id))
    /\ last_op' = "client_disconnects"
    /\ UNCHANGED <<client_list, reserved>>
    /\ UNCHANGED <<regions, states, anchors, load_chunk_ev, requested, ticks, sets,
                   prev_val, writes, shadow, last_pos, last_val, panicked, ret>>

\* One run of server_socket_event and of the commands it queued; prev_val
\* keeps the events the run read, ret the ClientConnectedEvents and the
\* ClientDisconnectedEvents it sent.
ServerSocketEvent ==
    /\ ~panicked
    /\ ticks < MaxRuns
    /\ \E out \in {server_socket_event(server_events, client_list, reserved)} :
        /\ panicked' = ~out.ok
        /\ ret' = <<out.ev_connected, out.ev_disconnected>>
        /\ reserved' = out.reserved
        /\ client_list' = IF out.ok THEN apply_commands(client_list, out.commands, 1)
                          ELSE client_list
    /\ prev_val' = server_events
    /\ server_events' = <<>>
    /\ ticks' = ticks + 1
    /\ last_op' = "server_socket_event"
    /\ UNCHANGED clients
    /\ UNCHANGED <<regions, states, anchors, load_chunk_ev, requested, sets,
                   writes, shadow, last_pos, last_val>>

NetNext == ClientConnects \/ ClientDisconnects \/ ServerSocketEvent

NetSpec == NetInit /\ [][NetNext]_vars

----------------------------------------------------------------------------
(* Properties of the voxel world storage. *)

\* The minimum corner and the size of an inclusive cuboid given by two
\* opposite corners.
CuboidMin(region) == VMin(region[1], region[2])
CuboidSize(region) ==
    VAddS(VSub(VMax(region[1], region[2]), VMin(region[1], region[2])), 1)
CuboidOffsets(region) ==
    LET size == CuboidSize(region)
    IN  (0 .. size[1] - 1) \X (0 .. size[2] - 1) \X (0 .. size[3] - 1)
InCuboid(p, region) ==
    LET lo == VMin(region[1], region[2])
        hi == VMax(region[1], region[2])
    IN  \A a \in 1 .. 3 : lo[a] <= p[a] /\ p[a] <= hi[a]

\* The chunk coordinates set_block_data has written to, and the positions
\* whose last written value is not the default.
written == {VShr(p, ChunkShift) : p \in DOMAIN shadow}
StoredNonDefault == {p \in DOMAIN shadow : shadow[p] # BlockDefault}

\* C1 (round trip): in every world reached by set_block_data calls, right
\* after set_block_data(p, v) a get_block_data(p) returns v, for positive and
\* negative positions alike.
C1_RoundTrip ==
    last_op = "set_block_data" => get_block_data(regions, last_pos) = last_val

\* C1 happens: a non-default value is written at a position with a negative
\* component into a world that already holds two regions.
C1_Witness ==
    /\ last_op = "set_block_data"
    /\ last_pos = <<15, 128, -3>>
    /\ last_val = 7
    /\ Len(regions) = 2
    /\ get_block_data(regions, last_pos) = 7

\* C2 (default fill): get_block_data returns the default value at every
\* position whose chunk was never written, in the fresh world and in every
\* later one.
C2_DefaultFill ==
    (last_op = "get_block_data" /\ VShr(last_pos, ChunkShift) \notin written)
        => (ret = <<BlockDefault>> /\ ~panicked)

\* C2 happens: a read of a never-written chunk in a region that holds another
\* chunk with a non-default block.
C2_Witness ==
    /\ last_op = "get_block_data"
    /\ last_pos = <<16, 0, 0>>
    /\ <<1, 0, 0>> \notin written
    /\ get_block_data(regions, <<0, 0, 0>>) = 7
    /\ ret = <<BlockDefault>>

\* C3 (batch/scalar equivalence): get_block_region returns, at index
\* x*sy*sz + y*sz + z, what get_block_data returns at min + (x, y, z), for
\* every offset of the cuboid.
C3_BatchScalar ==
    last_op = "get_block_region" =>
        /\ ~panicked
        /\ LET min  == CuboidMin(last_pos)
               size == CuboidSize(last_pos)
           IN  \A o \in CuboidOffsets(last_pos) :
                   LET i == o[1] * size[2] * size[3] + o[2] * size[3] + o[3]
                   IN  /\ i + 1 \in DOMAIN ret
                       /\ ret[i + 1] = get_block_data(regions, VAdd(min, o))

\* C3 happens: a cuboid over four chunks of two regions, one of them holding
\* two written blocks, is read and the written value is in the output.
C3_Witness ==
    /\ last_op = "get_block_region"
    /\ last_pos = << <<-3, 12, 2>>, <<0, 10, 5>> >>
    /\ get_block_data(regions, <<-1, 11, 4>>) = 7
    /\ get_block_data(regions, <<-1, 11, 5>>) = 7
    /\ ret[2 * 3 * 4 + 1 * 4 + 2 + 1] = 7

\* C4 (region read): the corners come in any order, the output has exactly as
\* many elements as the inclusive cuboid has blocks, as many of them are
\* non-default as there are non-default blocks stored inside the cuboid, and
\* a block of a never-written chunk is the default value.
C4_RegionRead ==
    last_op = "get_block_region" =>
        LET size == CuboidSize(last_pos)
            min  == CuboidMin(last_pos)
        IN  /\ ~panicked
            /\ Len(ret) = size[1] * size[2] * size[3]
            /\ ret = get_block_region(regions, <<last_pos[2], last_pos[1]>>).data
            /\ Cardinality({i \in DOMAIN ret : ret[i] # BlockDefault})
                 = Cardinality({p \in StoredNonDefault : InCuboid(p, last_pos)})
            /\ \A o \in CuboidOffsets(last_pos) :
                   VShr(VAdd(min, o), ChunkShift) \notin written =>
                       ret[o[1] * size[2] * size[3] + o[2] * size[3] + o[3] + 1]
                           = BlockDefault

\* C4 happens: the read of the test, corners in mixed order, 48 blocks, two of
\* them written.
C4_Witness ==
    /\ last_op = "get_block_region"
    /\ last_pos = << <<-3, 12, 2>>, <<0, 10, 5>> >>
    /\ Len(ret) = 48
    /\ Cardinality({i \in DOMAIN ret : ret[i] = 7}) = 2

\* C10 (structure of the world): no region coordinate is twice in the region
\* list and every region of the list owns at least one chunk.
C10_WorldStructure ==
    /\ \A i, j \in 1 .. Len(regions) :
           regions[i].region_coords = regions[j].region_coords => i = j
    /\ \A i \in 1 .. Len(regions) : regions[i].chunks # NoChunks

\* C10 happens: two writes into two chunks of one region leave one region.
C10_Witness ==
    /\ writes = 2
    /\ Len(regions) = 1
    /\ Cardinality(written) = 2

\* C11 (sparse minimality): when a block that held a non-default value is set
\* back to the default and its chunk holds default values only, the chunk is
\* stored no longer, and neither is its region if it owns no other chunk.
C11_SparseMinimality ==
    (/\ last_op = "set_block_data"
     /\ last_val = BlockDefault
     /\ prev_val # <<BlockDefault>>) =>
        LET region_coords == VShr(last_pos, RegionShift)
            chunk == FindChunk(regions, region_coords,
                               LinearIndex(VAnd15(VShr(last_pos, ChunkShift))))
        IN  /\ chunk # Some(VoxelChunkDefault)
            /\ FindRegion(regions, region_coords) # 0 =>
                   \E p \in StoredNonDefault : VShr(p, RegionShift) = region_coords

\* The bounds of i32.
I32Min == -2147483647 - 1
I32Max == 2147483647

\* floor(p / d) and p mod d on every axis, as numbers (not as bit patterns).
Floor3(p, d) == <<p[1] \div d, p[2] \div d, p[3] \div d>>
Mod3(p, d) == <<p[1] % d, p[2] % d, p[3] % d>>

\* The value a region list holds for the block position p when the slot of p
\* is found by floor and mod: the region floor(p / 256), in it the chunk at the
\* offset floor(p / 16) mod 16, in it the block at the offset p mod 16; the
\* default where the region or the chunk is absent.
StoredAt(rs, p) ==
    LET region_coords == Floor3(p, 256)
        chunk_offset  == Mod3(Floor3(p, 16), 16)
        block_offset  == Mod3(p, 16)
        hits == {i \in 1 .. Len(rs) : rs[i].region_coords = region_coords}
    IN  IF hits = {} THEN BlockDefault
        ELSE LET chunk == rs[CHOOSE i \in hits : TRUE].chunks[
                              chunk_offset[1] * 256 + chunk_offset[2] * 16
                              + chunk_offset[3]]
             IN  IF chunk = None THEN BlockDefault
                 ELSE chunk[1].blocks[block_offset[1] * 256
                                      + block_offset[2] * 16 + block_offset[3]]

\* Coordinates on both sides of zero, of the chunk and region borders, and at
\* the ends of i32.
DecompositionInputs ==
    {I32Min, I32Min + 1, -4097, -4096, -257, -256, -255, -17, -16, -15, -1,
     0, 1, 15, 16, 17, 255, 256, 257, 4095, 4096, I32Max - 1, I32Max}

\* Block positions (and chunk coordinates) with such components.
DecompositionPositions ==
    {<<x, x, x>> : x \in DecompositionInputs}
        \cup { <<I32Min, -1, I32Max>>, <<-1, 0, 255>>, <<-256, 256, -257>>,
               <<15, -16, 16>> }

\* The shifts and masks of the code on these inputs: >> is the floor of the
\* division, & 15 the mod, every local offset is in [0, 16) and every linear
\* index in [0, 4096); a block written at p is stored in the slot of p and
\* read back from it, and set_state and get_state find the slot of a chunk
\* coordinate the same way, none of them panicking.
DecompositionOfInputs ==
    /\ ShrI32(-1, ChunkShift) = -1
    /\ \A x \in DecompositionInputs :
           /\ ShrI32(x, RegionShift) = x \div 256
           /\ ShrI32(x, ChunkShift) = x \div 16
           /\ And15(ShrI32(x, ChunkShift)) = (x \div 16) % 16
           /\ And15(x) = x % 16
           /\ And15(x) \in 0 .. 15
           /\ And15(ShrI32(x, ChunkShift)) \in 0 .. 15
    /\ \A p \in DecompositionPositions :
           /\ LinearIndex(VAnd15(p)) \in 0 .. ArrayLen - 1
           /\ LinearIndex(VAnd15(VShr(p, ChunkShift))) \in 0 .. ArrayLen - 1
           /\ get_block_data(<<>>, p) = BlockDefault
           /\ LET rs == set_block_data(<<>>, p, 7)
              IN  /\ Len(rs) = 1
                  /\ rs[1].region_coords = Floor3(p, 256)
                  /\ StoredAt(rs, p) = 7
                  /\ get_block_data(rs, p) = 7
           /\ get_state(<<>>, p) = "Unloaded"
           /\ LET st == set_state(<<>>, p, "Loaded")
              IN  /\ Len(st) = 1
                  /\ st[1].region_coords = Floor3(p, 16)
                  /\ LET o == Mod3(p, 16)
                     IN  st[1].chunks[o[1] * 256 + o[2] * 16 + o[3]] = "Loaded"
                  /\ get_state(st, p) = "Loaded"

\* C12 (coordinate decomposition): the world stores every written block in
\* the slot that floor and mod assign to its position (block -1 in chunk -1),
\* get_block_data reads from that slot, no operation on the world panics, and
\* the shifts and masks are floor and mod with offsets in [0, 16) and indices
\* in [0, 4096) for all signed inputs, in the tracker as in the world.
C12_FloorDecomposition ==
    /\ ~panicked
    /\ \A p \in DOMAIN shadow : StoredAt(regions, p) = shadow[p]
    /\ last_op = "get_block_data" => ret = <<StoredAt(regions, last_pos)>>
    /\ DecompositionOfInputs

\* C12 happens: a block is written at (-1, 11, 4) and is stored in region
\* (-1, 0, 0), chunk offset (15, 0, 0), block offset (15, 11, 4).
C12_Witness ==
    /\ last_op = "set_block_data"
    /\ last_pos = <<-1, 11, 4>>
    /\ last_val = 7
    /\ FindRegion(regions, <<-1, 0, 0>>) # 0
    /\ LET chunk == regions[FindRegion(regions, <<-1, 0, 0>>)].chunks[15 * 256]
       IN  /\ chunk # None
           /\ chunk[1].blocks[15 * 256 + 11 * 16 + 4] = 7

\* C18 (the doc comment of get_block_region): the block at the location
\* (X, Y, Z) relative to the minimum corner of the cuboid is at the index
\* X * 256 + Y * 16 + Z of the returned vector, for every cuboid.
C18_DocCommentIndex ==
    last_op = "get_block_region" =>
        LET min == CuboidMin(last_pos)
        IN  \A o \in CuboidOffsets(last_pos) :
                LET i == o[1] * 256 + o[2] * 16 + o[3]
                IN  /\ i + 1 \in DOMAIN ret
                    /\ ret[i + 1] = get_block_data(regions, VAdd(min, o))

\* C23: get_block_region looks up each chunk coordinate that overlaps the
\* requested cuboid exactly once, and the sub-cuboids of the chunks partition
\* the cuboid: every output index 0 .. volume - 1 is written exactly once and
\* no other index is written.
C23_OneLookupPerChunk ==
    last_op = "get_block_region" =>
        LET min         == CuboidMin(last_pos)
            size        == CuboidSize(last_pos)
            volume      == size[1] * size[2] * size[3]
            overlapping == {VShr(VAdd(min, o), ChunkShift) :
                                o \in CuboidOffsets(last_pos)}
            lookups     == prev_val.lookups
            indices     == prev_val.written
        IN  /\ ~panicked
            /\ {lookups[i] : i \in DOMAIN lookups} = overlapping
            /\ Len(lookups) = Cardinality(overlapping)
            /\ {indices[i] : i \in DOMAIN indices} = 0 .. volume - 1
            /\ Len(indices) = volume

\* C23 happens: a cuboid of 27 blocks over four chunks of two regions was
\* read with four lookups and 27 writes.
C23_Witness ==
    /\ last_op = "get_block_region"
    /\ last_pos = << <<14, 129, -4>>, <<16, 127, -2>> >>
    /\ Len(prev_val.lookups) = 4
    /\ Len(prev_val.written) = 27
    /\ regions # <<>>

\* The positions read around a write: the probes, their mirror images and
\* their neighbours along each axis, which lie in the chunk of the probe or in
\* the next one.
VNeg(p) == <<-p[1], -p[2], -p[3]>>
IsolationProbes ==
    ProbePositions \cup {VNeg(p) : p \in ProbePositions}
        \cup {VAdd(p, o) : p \in BlockPositions,
                           o \in {<<1, 0, 0>>, <<0, -1, 0>>, <<0, 0, 1>>}}

\* The chunk that holds a position, None when it is not allocated.
ChunkOf(rs, p) ==
    FindChunk(rs, VShr(p, RegionShift),
              LinearIndex(VAnd15(VShr(p, ChunkShift))))

\* C24 (write isolation): a set_block_data(p, v) leaves what get_block_data
\* returns unchanged at every position other than p; when the write allocates
\* the chunk of p, every other block of that chunk is the default value.
C24_WriteIsolation ==
    [][writes' = writes + 1 =>
           /\ \A q \in IsolationProbes \ {last_pos'} :
                  get_block_data(regions', q) = get_block_data(regions, q)
           /\ ChunkOf(regions, last_pos') = None =>
                  \E chunk \in {ChunkOf(regions', last_pos')} :
                      /\ chunk # None
                      /\ [chunk[1].blocks
                             EXCEPT ![LinearIndex(VAnd15(last_pos'))] =
                                 BlockDefault]
                           = VoxelChunkDefault.blocks]_vars

\* C24 happens: the value 7 was written at (-1, 11, 5) into the chunk that
\* already held 7 at (-1, 11, 4), which still reads 7.
C24_Witness ==
    /\ last_op = "set_block_data"
    /\ last_pos = <<-1, 11, 5>>
    /\ last_val = 7
    /\ writes = 2
    /\ Len(regions) = 1
    /\ get_block_data(regions, <<-1, 11, 4>>) = 7
    /\ get_block_data(regions, <<-1, 11, 6>>) = BlockDefault
    /\ get_block_data(regions, <<1, -11, -5>>) = BlockDefault

----------------------------------------------------------------------------
(* Properties of the chunk load-state tracker. *)

\* C8 (tracker read/write): get_state returns Unloaded for a chunk that was
\* never set and for a chunk whose region has no entry, and right after
\* set_state(c, s), from any previous state to any state s, get_state(c)
\* returns s.
C8_TrackerReadWrite ==
    /\ ~panicked
    /\ last_op = "set_state" => get_state(states["w1"], last_pos) = last_val
    /\ (last_op = "get_state" /\ last_pos \notin DOMAIN shadow)
           => ret = <<"Unloaded">>
    /\ (last_op = "get_state"
            /\ FindRegion(states["w1"], VShr(last_pos, ChunkShift)) = 0)
           => ret = <<"Unloaded">>
    /\ (last_op = "get_state" /\ last_pos \in DOMAIN shadow)
           => ret = <<shadow[last_pos]>>

\* C8 happens: a chunk that was Loaded is set to Unloading while its region
\* holds another chunk.
C8_Witness ==
    /\ last_op = "set_state"
    /\ prev_val = <<"Loaded">>
    /\ last_val = "Unloading"
    /\ last_pos = <<-1, -1, -2>>
    /\ get_state(states["w1"], <<-2, -1, -2>>) = "Loading"
    /\ get_state(states["w1"], last_pos) = "Unloading"

\* C9 (tracker sparsity): the region list holds no region whose entries are
\* all Unloaded and no region coordinate twice; a set_state to Unloaded of the
\* last entry of a region removes the region, and one in an absent region
\* allocates nothing.
C9_TrackerSparse ==
    /\ \A i \in 1 .. Len(states["w1"]) : states["w1"][i].chunks # AllUnloaded
    /\ \A i, j \in 1 .. Len(states["w1"]) :
           states["w1"][i].region_coords = states["w1"][j].region_coords => i = j
    /\ Len(states["w1"]) =
           Cardinality({VShr(c, ChunkShift) :
                           c \in {q \in DOMAIN shadow : shadow[q] # "Unloaded"}})

\* C9 happens: the only entry of the first of two regions is set from Loading
\* to Unloaded and the region is gone, the other one stays.
C9_Witness ==
    /\ last_op = "set_state"
    /\ last_val = "Unloaded"
    /\ prev_val = <<"Loading">>
    /\ last_pos = <<15, 15, 14>>
    /\ Len(states["w1"]) = 1
    /\ states["w1"][1].region_coords = <<-1, -1, -1>>

\* The chunk coordinates read around a set_state: the probes and chunks with
\* the local offset of a probe in regions that are never written.
TrackerIsolationProbes ==
    TrackerProbes \cup { <<-17, -17, -18>>, <<31, 15, 14>>, <<15, 15, 13>> }

\* C25 (tracker write isolation): a set_state(c, s) leaves what get_state
\* returns unchanged at every chunk coordinate other than c, whether the call
\* changes an entry, removes the region of c or allocates a region.
C25_TrackerIsolation ==
    [][last_op' = "set_state" =>
           \A d \in TrackerIsolationProbes \ {last_pos'} :
               get_state(states'["w1"], d) = get_state(states["w1"], d)]_vars

\* C25 happens: the only entry of the first of two regions was set from
\* Loaded to Unloaded, the region is gone, and the chunk with the same local
\* offset in the other region is still Loading.
C25_Witness ==
    /\ last_op = "set_state"
    /\ last_pos = <<-1, -1, -2>>
    /\ prev_val = <<"Loaded">>
    /\ last_val = "Unloaded"
    /\ Len(states["w1"]) = 1
    /\ states["w1"][1].region_coords = <<0, 0, 0>>
    /\ get_state(states["w1"], <<15, 15, 14>>) = "Loading"
    /\ get_state(states["w1"], <<-2, -1, -2>>) = "Unloaded"

----------------------------------------------------------------------------
(* Properties of the streaming scheduler. *)

\* The <<world, chunk>> pairs of the events of the last tick.
EventPairs ==
    {<<load_chunk_ev[i].world, load_chunk_ev[i].chunk_coords>> :
        i \in DOMAIN load_chunk_ev}

\* C5 (at most one event per chunk and tick): the events of one run of
\* load_chunks name no chunk of a world twice, however the cuboids of the
\* anchors overlap.
C5_OneEventPerTick ==
    \A i, j \in DOMAIN load_chunk_ev :
        (/\ load_chunk_ev[i].chunk_coords = load_chunk_ev[j].chunk_coords
         /\ load_chunk_ev[i].world = load_chunk_ev[j].world) => i = j

\* C5 happens: two anchors of one world whose cuboids share 18 chunks have been
\* served by one tick, with 27 + 27 - 18 events.
C5_Witness ==
    /\ last_op = "load_chunks"
    /\ prev_val.fresh
    /\ Len(anchors) = 2
    /\ anchors[1].world = Some("w1") /\ anchors[2].world = Some("w1")
    /\ anchors[1].translation = TestTranslation
    /\ anchors[2].translation = NegTranslation
    /\ anchors[1].radius = 1 /\ anchors[2].radius = 1
    /\ Len(load_chunk_ev) = 36

\* C6 (one anchor, fresh tracker): a tick emits (2r+1)^3 events, one for each
\* chunk of the cube of radius r around the anchor's chunk, x outermost and z
\* innermost, none twice; the anchor of the test is in chunk (2, 0, -1).
C6_SingleAnchor ==
    (/\ last_op = "load_chunks"
     /\ prev_val.fresh
     /\ Len(anchors) = 1
     /\ anchors[1].world # None) =>
        LET r == anchors[1].radius
            n == 2 * r + 1
            c == AnchorChunk(anchors[1].translation)
        IN  /\ ~panicked
            /\ anchors[1].translation = TestTranslation => c = <<2, 0, -1>>
            /\ Len(load_chunk_ev) = n * n * n
            /\ Cardinality(EventPairs) = n * n * n
            /\ \A i \in 1 .. n * n * n :
                   load_chunk_ev[i] =
                       [chunk_coords |-> <<c[1] - r + ((i - 1) \div (n * n)),
                                           c[2] - r + (((i - 1) \div n) % n),
                                           c[3] - r + ((i - 1) % n)>>,
                        world |-> anchors[1].world[1]]

\* C6 happens: the scenario of the test, 27 events from (1, -1, -2) to
\* (3, 1, 0).
C6_Witness ==
    /\ last_op = "load_chunks"
    /\ prev_val.fresh
    /\ anchors = << ChunkAnchorNew("w1", 1, 2, TestTranslation) >>
    /\ Len(load_chunk_ev) = 27
    /\ load_chunk_ev[1] = [chunk_coords |-> <<1, -1, -2>>, world |-> "w1"]
    /\ load_chunk_ev[2] = [chunk_coords |-> <<1, -1, -1>>, world |-> "w1"]
    /\ load_chunk_ev[27] = [chunk_coords |-> <<3, 1, 0>>, world |-> "w1"]

\* C7 (one event per transition): a tick sends no event for a chunk that was
\* requested before and not set back to Unloaded since, and a tick that
\* follows a tick directly sends no event at all.
C7_OncePerTransition ==
    last_op = "load_chunks" =>
        /\ EventPairs \cap prev_val.requested = {}
        /\ prev_val.op = "load_chunks" => load_chunk_ev = <<>>

\* C7 happens: after a first tick requested 27 chunks the anchor moved by one
\* chunk, and the second tick requests the 9 new chunks only.
C7_Witness ==
    /\ last_op = "load_chunks"
    /\ ticks = 2
    /\ prev_val.op = "move"
    /\ Cardinality(prev_val.requested) = 27
    /\ Len(load_chunk_ev) = 9

\* Whether a chunk is within the max radius of an anchor of the world.
InMaxRadius(w, c) ==
    \E i \in DOMAIN anchors :
        /\ anchors[i].world = Some(w)
        /\ LET pos == AnchorChunk(anchors[i].translation)
           IN  InCuboid(c, <<VAddS(pos, -anchors[i].max_radius),
                             VAddS(pos, anchors[i].max_radius)>>)

\* The UnloadChunkEvents of a list that name the chunk and the world.
UnloadEvents(events, w, c) ==
    {i \in DOMAIN events : events[i] = [chunk_coords |-> c, world |-> w]}

\* C15 (unload pass): after unload_chunks has run, every chunk that was Loaded
\* and lies outside the max radius of every anchor is Unloading and one
\* UnloadChunkEvent names it and its world; a chunk that was Loaded and is
\* within the max radius of an anchor is still Loaded and no event names it.
C15_UnloadPass ==
    last_op = "unload_chunks" =>
        \A w \in Worlds, c \in ChangedChunks :
            get_state(prev_val[w], c) = "Loaded" =>
                IF InMaxRadius(w, c)
                THEN /\ get_state(states[w], c) = "Loaded"
                     /\ UnloadEvents(ret, w, c) = {}
                ELSE /\ get_state(states[w], c) = "Unloading"
                     /\ Cardinality(UnloadEvents(ret, w, c)) = 1

\* C16: every ChunkAnchor the scheduler has consumed has max_radius >= radius.
C16_MaxRadiusAtLeastRadius ==
    last_op = "load_chunks" =>
        \A i \in DOMAIN anchors : anchors[i].max_radius >= anchors[i].radius

\* The chunks of the frame condition: the cuboids of all anchors and a
\* margin of chunks around them.
FrameChunks == (0 .. 5) \X (-2 .. 2) \X (-3 .. 2)

\* Whether a chunk is in the load cuboid of an anchor of the world.
InLoadCuboid(w, c) ==
    \E i \in DOMAIN anchors :
        anchors[i].world = Some(w) /\ InCuboid(c, AnchorCuboid(anchors[i]))

\* One tick of load_chunks, for the chunk c of the world w: the state changes
\* from Unloaded to Loading or not at all; a chunk that is not Unloaded, or is
\* in no load cuboid, keeps its state and no event of the tick names it.
FrameOfChunk(w, c) ==
    \E before \in {get_state(states[w], c)} :
        \E after \in {get_state(states'[w], c)} :
            /\ after # before => (before = "Unloaded" /\ after = "Loading")
            /\ (before # "Unloaded" \/ ~InLoadCuboid(w, c)) =>
                   /\ after = before
                   /\ \A i \in DOMAIN load_chunk_ev' :
                          load_chunk_ev'[i] # [chunk_coords |-> c, world |-> w]

\* C19 (frame condition of the scheduler): every tick of load_chunks is as
\* FrameOfChunk says for every chunk, and every event of the tick names a
\* chunk of the frame.  A tick that leaves the trackers as they are and sends
\* no event is such a tick.
C19_SchedulerFrame ==
    [][ticks' = ticks + 1 =>
           \/ states' = states /\ load_chunk_ev' = <<>>
           \/ /\ \A w \in Worlds, c \in FrameChunks : FrameOfChunk(w, c)
              /\ \A i \in DOMAIN load_chunk_ev' :
                     /\ load_chunk_ev'[i].world \in Worlds
                     /\ load_chunk_ev'[i].chunk_coords \in FrameChunks]_vars

\* C19 happens: a tick has run after another system set the chunk of the test
\* anchor, in its load cuboid, to Loaded: the chunk is still Loaded, the other
\* 26 chunks of the cuboid were requested, and the chunk outside every cuboid
\* is still Unloaded.
C19_Witness ==
    /\ last_op = "load_chunks"
    /\ prev_val.op = "set_state"
    /\ last_pos = <<2, 0, -1>>
    /\ last_val = "Loaded"
    /\ Len(anchors) = 1
    /\ anchors[1].radius = 1
    /\ get_state(states["w1"], <<2, 0, -1>>) = "Loaded"
    /\ get_state(states["w1"], <<5, 0, -1>>) = "Unloaded"
    /\ Len(load_chunk_ev) = 26

\* floor(position / 16) on every axis: the chunk of the block that holds the
\* position.
FloorChunk(translation) ==
    <<(translation[1] \div PosScale) \div 16,
      (translation[2] \div PosScale) \div 16,
      (translation[3] \div PosScale) \div 16>>

\* C20: the scheduler converts the position of every anchor to the chunk that
\* holds it, floor(position / 16) on every axis, and after a tick no chunk of
\* the cuboid of the anchor's radius around that chunk is Unloaded.
C20_AnchorChunkIsFloor ==
    last_op = "load_chunks" =>
        \A i \in DOMAIN anchors :
            anchors[i].world # None =>
                LET pos == FloorChunk(anchors[i].translation)
                IN  /\ AnchorChunk(anchors[i].translation) = pos
                    /\ \A c \in FrameChunks :
                           InCuboid(c, <<VAddS(pos, -anchors[i].radius),
                                         VAddS(pos, anchors[i].radius)>>) =>
                               get_state(states[anchors[i].world[1]], c)
                                   # "Unloaded"

\* C26 (world isolation): in every tick each LoadChunkEvent names a world
\* that an anchor with the chunk in its load cuboid names, and the chunk went
\* from Unloaded to Loading in the tracker of that world; a tracker changes
\* at a chunk only with an event for the chunk and that world; no pair of
\* world and chunk has two events; the tracker of a world that no anchor
\* names is left as it is, and so is every tracker when no anchor has a
\* world.
C26_WorldIsolation ==
    [][ticks' = ticks + 1 =>
           /\ \A i \in DOMAIN load_chunk_ev' :
                  \E ev \in {load_chunk_ev'[i]} :
                      /\ \E a \in DOMAIN anchors :
                             /\ anchors[a].world = Some(ev.world)
                             /\ InCuboid(ev.chunk_coords,
                                         AnchorCuboid(anchors[a]))
                      /\ get_state(states[ev.world], ev.chunk_coords)
                             = "Unloaded"
                      /\ get_state(states'[ev.world], ev.chunk_coords)
                             = "Loading"
                      /\ \A w \in Worlds \ {ev.world} :
                             \/ [chunk_coords |-> ev.chunk_coords, world |-> w]
                                    \in {load_chunk_ev'[j] :
                                            j \in DOMAIN load_chunk_ev'}
                             \/ get_state(states'[w], ev.chunk_coords)
                                    = get_state(states[w], ev.chunk_coords)
           /\ \A i, j \in DOMAIN load_chunk_ev' :
                  load_chunk_ev'[i] = load_chunk_ev'[j] => i = j
           /\ \A w \in Worlds :
                  (\A a \in DOMAIN anchors : anchors[a].world # Some(w)) =>
                      states'[w] = states[w]
           /\ load_chunk_ev' = <<>> => states' = states]_vars

\* C26 happens: two anchors of two worlds at one position were served by one
\* tick; the chunk (2, 0, -1) was requested once for each world, 27 events
\* for each, and each tracker holds it as Loading.
C26_Witness ==
    /\ last_op = "load_chunks"
    /\ prev_val.fresh
    /\ Len(anchors) = 2
    /\ anchors[1].world = Some("w1")
    /\ anchors[2].world = Some("w2")
    /\ Len(load_chunk_ev) = 54
    /\ load_chunk_ev[14] = [chunk_coords |-> <<2, 0, -1>>, world |-> "w1"]
    /\ load_chunk_ev[41] = [chunk_coords |-> <<2, 0, -1>>, world |-> "w2"]
    /\ get_state(states["w1"], <<2, 0, -1>>) = "Loading"
    /\ get_state(states["w2"], <<2, 0, -1>>) = "Loading"

\* A tick has run with an anchor whose world is None before an anchor of
\* radius 0: one event, for the chunk of the second anchor.
NoneAnchorServed ==
    /\ last_op = "load_chunks"
    /\ prev_val.fresh
    /\ Len(anchors) = 2
    /\ anchors[1].world = None
    /\ Len(load_chunk_ev) = 1

\* The pairs of a world and a chunk of the load cuboid of an anchor of that
\* world.
LoadCuboidPairs ==
    UNION {LET cuboid == AnchorCuboid(anchors[a])
               chunks == CuboidIterator(cuboid[1], cuboid[2])
           IN  {<<anchors[a].world[1], chunks[k]>> : k \in DOMAIN chunks} :
               a \in {b \in DOMAIN anchors : anchors[b].world # None}}

\* C30 (completeness): after a tick no chunk of the load cuboid of an anchor
\* with a world is Unloaded, and the events of the tick name exactly the pairs
\* of a world and a chunk that were Unloaded when the tick began and lie in a
\* load cuboid of an anchor of the world.
C30_SchedulerComplete ==
    [][ticks' = ticks + 1 =>
           /\ ~panicked'
           /\ \A pair \in LoadCuboidPairs :
                  get_state(states'[pair[1]], pair[2]) # "Unloaded"
           /\ {<<load_chunk_ev'[i].world, load_chunk_ev'[i].chunk_coords>> :
                   i \in DOMAIN load_chunk_ev'}
                = {pair \in LoadCuboidPairs :
                       get_state(states[pair[1]], pair[2]) = "Unloaded"}]_vars

\* C30 happens: a tick has run after another system set the chunk (2, 0, -1)
\* of the load cuboid from Loading back to Unloaded; the tick requested that
\* chunk alone, and it is Loading again.
C30_Witness ==
    /\ last_op = "load_chunks"
    /\ prev_val.op = "set_state"
    /\ ticks = 2
    /\ last_pos = <<2, 0, -1>>
    /\ last_val = "Unloaded"
    /\ load_chunk_ev = << [chunk_coords |-> <<2, 0, -1>>, world |-> "w1"] >>
    /\ get_state(states["w1"], <<2, 0, -1>>) = "Loading"

----------------------------------------------------------------------------
(* Properties of the block shapes and the chunk mesher. *)

\* C13 (opposite-face symmetry): for each of the 128 combinations f of the
\* seven flags, opposite_face(opposite_face(f)) is f.
C13_OppositeTwice ==
    last_op = "opposite_face_twice" => ret = <<last_val>>

\* C13 happens: INNER | POS_X | NEG_Y became INNER | NEG_X | POS_Y and then
\* itself again.
C13_Witness ==
    /\ last_op = "opposite_face_twice"
    /\ last_val = FromBits({INNER, POS_X, NEG_Y})
    /\ prev_val = <<FromBits({INNER, NEG_X, POS_Y})>>
    /\ ret = <<FromBits({INNER, POS_X, NEG_Y})>>

\* The shape the world of shapes holds at a position, and the cubes of a chunk.
ShapeAt(p) == IF p \in DOMAIN shadow THEN shadow[p] ELSE Empty
CubesOfChunk(c) ==
    {p \in DOMAIN shadow : shadow[p] = Cube /\ VShr(p, ChunkShift) = c}
NeighbourOffsets == {CheckDirs[k].offset : k \in DOMAIN CheckDirs}

\* The quads (0-based) of a mesh that are a face of the unit cube at the local
\* position l: the four corners of the face in its order, with its normal.
QuadsOf(mesh, l) ==
    {k \in 0 .. (Len(mesh.positions) \div 4) - 1 :
        \E f \in DOMAIN CubeFaces :
            /\ mesh.normals[4 * k + 1] = CubeFaces[f].normal
            /\ \A j \in 1 .. 4 :
                mesh.positions[4 * k + j] = VAdd(l, Verts[CubeFaces[f].v[j] + 1])}

\* C14: the mesh of a chunk that holds a single Cube whose six neighbours are
\* Empty has exactly 6 quads (24 vertices, 24 normals, 24 uvs, 36 indices);
\* a Cube of the chunk whose six neighbours are Cube contributes no quad.
C14_CullingScenario ==
    last_op = "generate_chunk_mesh" =>
        LET cubes == CubesOfChunk(last_pos)
        IN  /\ (/\ Cardinality(cubes) = 1
                /\ \A p \in cubes, o \in NeighbourOffsets :
                       ShapeAt(VAdd(p, o)) = Empty) =>
                   /\ ret # <<>>
                   /\ Len(ret[1].positions) = 24
                   /\ Len(ret[1].normals) = 24
                   /\ Len(ret[1].uvs) = 24
                   /\ Len(ret[1].indices) = 36
            /\ \A p \in cubes :
                   (\A o \in NeighbourOffsets : ShapeAt(VAdd(p, o)) = Cube) =>
                       /\ ret # <<>>
                       /\ QuadsOf(ret[1], VAnd15(p)) = {}

\* The same for the chunk at the origin alone, where the local positions of
\* the loop are the world positions.
CullingScenarioAtOrigin == last_pos = <<0, 0, 0>> => C14_CullingScenario

\* C17: in a mesh that generate_chunk_mesh returns, with Q the number of quads,
\* the vertices, normals and uvs have length 4 * Q and the indices length
\* 6 * Q; the k-th quad (0-based) has the indices 4k, 4k+1, 4k+2, 4k, 4k+2,
\* 4k+3 and the uvs (0,0), (0,1), (1,1), (1,0); every index is the index of a
\* vertex of the mesh.
C17_BufferConsistency ==
    (last_op = "generate_chunk_mesh" /\ ret # <<>>) =>
        LET mesh == ret[1]
            Q    == Len(mesh.indices) \div 6
        IN  /\ Len(mesh.positions) = 4 * Q
            /\ Len(mesh.normals) = 4 * Q
            /\ Len(mesh.uvs) = 4 * Q
            /\ Len(mesh.indices) = 6 * Q
            /\ \A k \in 0 .. Q - 1 :
                /\ <<mesh.indices[6 * k + 1], mesh.indices[6 * k + 2],
                     mesh.indices[6 * k + 3], mesh.indices[6 * k + 4],
                     mesh.indices[6 * k + 5], mesh.indices[6 * k + 6]>>
                   = <<4 * k, 4 * k + 1, 4 * k + 2, 4 * k, 4 * k + 2, 4 * k + 3>>
                /\ <<mesh.uvs[4 * k + 1], mesh.uvs[4 * k + 2],
                     mesh.uvs[4 * k + 3], mesh.uvs[4 * k + 4]>>
                   = << <<0, 0>>, <<0, 1>>, <<1, 1>>, <<1, 0>> >>
            /\ \A i \in DOMAIN mesh.indices :
                0 <= mesh.indices[i] /\ mesh.indices[i] < Len(mesh.positions)

\* A mesh of 30 quads was returned: a cube hidden by its six neighbours, each
\* of which shows five faces; the last quad has the indices 116 .. 119.
C17_Witness ==
    /\ last_op = "generate_chunk_mesh"
    /\ ret # <<>>
    /\ Len(ret[1].positions) = 120
    /\ Len(ret[1].indices) = 180
    /\ ret[1].indices[175] = 116
    /\ ret[1].indices[180] = 119

\* Whether the quad k (0-based) of a mesh is the face f of the unit cube at
\* the local position l.
IsFaceQuad(mesh, k, l, f) ==
    /\ mesh.normals[4 * k + 1] = CubeFaces[f].normal
    /\ \A j \in 1 .. 4 :
        mesh.positions[4 * k + j] = VAdd(l, Verts[CubeFaces[f].v[j] + 1])

\* The quads of a mesh; the face a normal belongs to; the local position and
\* the face that the first vertex and the normal of the quad k stand for.
Quads(mesh) == 0 .. (Len(mesh.positions) \div 4) - 1
FaceOfNormal(normal) ==
    CHOOSE f \in DOMAIN CubeFaces : CubeFaces[f].normal = normal
QuadFace(mesh, k) ==
    LET f == FaceOfNormal(mesh.normals[4 * k + 1])
    IN  <<VSub(mesh.positions[4 * k + 1], Verts[CubeFaces[f].v[1] + 1]), f>>

\* Every quad of the mesh is a face of a unit cube, and no two quads are the
\* same face of the same cube.
QuadsAreFaces(mesh) ==
    /\ \A k \in Quads(mesh) :
           /\ \E f \in DOMAIN CubeFaces :
                  CubeFaces[f].normal = mesh.normals[4 * k + 1]
           /\ \E lf \in {QuadFace(mesh, k)} : IsFaceQuad(mesh, k, lf[1], lf[2])
    /\ Cardinality({QuadFace(mesh, k) : k \in Quads(mesh)})
           = Cardinality(Quads(mesh))

\* Whether the world block next to the face f of the world block p is not a
\* Cube, so that the face is to be seen.
Exposed(p, f) == ShapeAt(VAdd(p, CubeFaces[f].normal)) # Cube

\* The faces to be seen of the cubes of a chunk, as pairs of the local
\* position of the cube and the face.
ExposedFaces(c) ==
    {lf \in {<<VAnd15(p), f>> : p \in CubesOfChunk(c), f \in DOMAIN CubeFaces} :
        Exposed(VAdd(VShl(c, ChunkShift), lf[1]), lf[2])}

\* C21: generate_chunk_mesh returns for every chunk coordinate c, and the
\* mesh holds the geometry of the world blocks c * 16 + l at their local
\* offsets l: every quad is a face of a unit cube at the local offset of a
\* cube of the chunk, and every cube of the chunk that has a face to be seen
\* has a quad at its local offset.
C21_EveryChunk ==
    last_op = "generate_chunk_mesh" =>
        /\ ~panicked
        /\ ret # <<>>
        /\ QuadsAreFaces(ret[1])
        /\ {QuadFace(ret[1], k)[1] : k \in Quads(ret[1])}
               = {lf[1] : lf \in ExposedFaces(last_pos)}

\* C22 (culling): a quad is in the mesh for the block b and the direction d if
\* and only if b is a Cube and the block next to b in the direction d is not a
\* Cube, whether that block is in the chunk or in the halo: each face to be
\* seen of each cube of the meshed chunk is one quad, a hidden face is none,
\* and the mesh has no other quad.
C22_CullingIff ==
    last_op = "generate_chunk_mesh" =>
        /\ ExposedFaces(last_pos) # {} => ret # <<>>
        /\ ret # <<>> =>
               /\ QuadsAreFaces(ret[1])
               /\ {QuadFace(ret[1], k) : k \in Quads(ret[1])}
                      = ExposedFaces(last_pos)

\* The culling for the chunk at the origin alone, where the local positions
\* of the loop are the world positions.
CullingIffAtOrigin == last_pos = <<0, 0, 0>> => C22_CullingIff

\* The most quads a chunk can have: a quad lies between a cube of the chunk
\* and a block that is not a cube, and a chunk has 3 * 16 * 16 * 15 pairs of
\* adjacent blocks inside and 6 * 16 * 16 faces on its border.
MaxQuads == 3 * 16 * 16 * 15 + 6 * 16 * 16

\* C27 (16-bit index safety): in every mesh generate_chunk_mesh returns, the
\* vertices are four for each face to be seen of a cube of the chunk, at most
\* 4 * MaxQuads, so that the largest index is below 65536, and every index of
\* every quad is the position of its vertex, not that position modulo 65536.
C27_IndexSafety ==
    (last_op = "generate_chunk_mesh" /\ ret # <<>>) =>
        LET mesh == ret[1]
        IN  /\ Len(mesh.positions) = 4 * Cardinality(ExposedFaces(last_pos))
            /\ Len(mesh.positions) <= 4 * MaxQuads
            /\ 4 * MaxQuads <= 65536
            /\ \A k \in Quads(mesh) :
                   /\ mesh.indices[6 * k + 1] = 4 * k
                   /\ mesh.indices[6 * k + 2] = 4 * k + 1
                   /\ mesh.indices[6 * k + 3] = 4 * k + 2
                   /\ mesh.indices[6 * k + 4] = 4 * k
                   /\ mesh.indices[6 * k + 5] = 4 * k + 2
                   /\ mesh.indices[6 * k + 6] = 4 * k + 3
                   /\ 4 * k + 3 < 65536

\* C27 happens: the mesh of twelve cubes apart from each other was returned,
\* 72 quads whose indices go beyond 255, up to 287.
C27_Witness ==
    /\ last_op = "generate_chunk_mesh"
    /\ last_pos = <<0, 0, 0>>
    /\ ret # <<>>
    /\ Cardinality(CubesOfChunk(last_pos)) = 12
    /\ Len(ret[1].positions) = 288
    /\ Len(ret[1].indices) = 432
    /\ ret[1].indices[385] = 256
    /\ ret[1].indices[432] = 287

\* The cross product and the dot product of two vectors; the axis-aligned
\* unit vectors; the componentwise minimum of the four vertices of the quad k.
Cross(a, b) ==
    <<a[2] * b[3] - a[3] * b[2], a[3] * b[1] - a[1] * b[3], a[1] * b[2] - a[2] * b[1]>>
Dot(a, b) == a[1] * b[1] + a[2] * b[2] + a[3] * b[3]
AxisUnits ==
    {<<-1, 0, 0>>, <<1, 0, 0>>, <<0, -1, 0>>, <<0, 1, 0>>, <<0, 0, -1>>, <<0, 0, 1>>}
QuadMin(mesh, k) ==
    VMin(VMin(mesh.positions[4 * k + 1], mesh.positions[4 * k + 2]),
         VMin(mesh.positions[4 * k + 3], mesh.positions[4 * k + 4]))

\* Whether the quad k (0-based) of a mesh is wound counter-clockwise on a
\* face of a unit cube: its four normals are one axis-aligned unit vector n;
\* its four vertices are four different corners of the cube at l, all on the
\* side of the cube that n points out of (l is the least corner of the quad,
\* moved back by n when n is positive); the two triangles, read through the
\* index buffer, have the cross product n.
QuadWoundOnFace(mesh, k) ==
    \E n \in {mesh.normals[4 * k + 1]} :
    \E l \in {VSub(QuadMin(mesh, k), VMax(n, <<0, 0, 0>>))} :
    \E p \in {[j \in 1 .. 6 |-> mesh.positions[mesh.indices[6 * k + j] + 1]]} :
        /\ n \in AxisUnits
        /\ \A j \in 1 .. 4 :
               /\ mesh.normals[4 * k + j] = n
               /\ VSub(mesh.positions[4 * k + j], l) \in {Verts[c] : c \in DOMAIN Verts}
               /\ Dot(VSub(mesh.positions[4 * k + j], l), n) = Dot(VMax(n, <<0, 0, 0>>), n)
        /\ Cardinality({mesh.positions[4 * k + j] : j \in 1 .. 4}) = 4
        /\ ShapeAt(l) = Cube
        /\ Cross(VSub(p[2], p[1]), VSub(p[3], p[1])) = n
        /\ Cross(VSub(p[5], p[4]), VSub(p[6], p[4])) = n

\* C28: every quad of a mesh generate_chunk_mesh returns has the normal of
\* one of the six directions, has its four vertices on the face of the unit
\* cube of a Cube block that the normal points out of, and both of its
\* triangles (v, v+1, v+2) and (v, v+2, v+3) wind counter-clockwise seen from
\* outside: the cross product of their edges is the normal.
C28_QuadGeometry ==
    (last_op = "generate_chunk_mesh" /\ ret # <<>>) =>
        \A k \in Quads(ret[1]) : QuadWoundOnFace(ret[1], k)

\* A lone cube was meshed: six quads, one for each direction.
C28_Witness ==
    /\ last_op = "generate_chunk_mesh"
    /\ ret # <<>>
    /\ Len(ret[1].positions) = 24
    /\ {ret[1].normals[4 * k + 1] : k \in 0 .. 5} = AxisUnits
    /\ \A k \in 0 .. 5 : QuadWoundOnFace(ret[1], k)

----------------------------------------------------------------------------
(* Properties of the connection events. *)

\* The entity that holds the socket of a client id in a list of entities, as
\* a sequence of at most one entity; the events of a kind among the first k
\* events; the places of the events of a kind.
EntityOf(list, id) == find(list, id, 1)
Places(events, kind) == {k \in DOMAIN events : events[k].kind = kind}
PlaceNumber(events, kind, k) ==
    Cardinality({j \in Places(events, kind) : j <= k})

\* Whether the client of the event k connected later in the same run.
ConnectsAgain(events, k) ==
    \E j \in Places(events, "ClientConnected") : j > k /\ events[j].id = events[k].id

\* Whether the client of the event k disconnected later in the same run.
DisconnectsAgain(events, k) ==
    \E j \in Places(events, "ClientDisconnected") : j > k /\ events[j].id = events[k].id

\* The entity created for the client of the event k before that event: the
\* one of the last ClientConnected of the client earlier in the run, or else
\* the one that held the socket of the client before the run.
CreatedFor(events, k, before, connected) ==
    LET earlier == {j \in Places(events, "ClientConnected") :
                        j < k /\ events[j].id = events[k].id}
    IN  IF earlier # {}
        THEN <<connected[PlaceNumber(events, "ClientConnected",
                                     CHOOSE j \in earlier : \A i \in earlier : i <= j)]>>
        ELSE EntityOf(before, events[k].id)

\* What a run of server_socket_event over the events owes: no panic; one
\* ClientConnectedEvent for each ClientConnected, each for a new entity of
\* its own, which holds ClientSocket(id) after the run unless the client
\* disconnected later in the run; one ClientDisconnectedEvent for each
\* ClientDisconnected, for the entity created for the id, which is gone after
\* the run.
RunHandled(events, before, after, connected, disconnected, failed) ==
    /\ ~failed
    /\ Len(connected) = Cardinality(Places(events, "ClientConnected"))
    /\ Len(disconnected) = Cardinality(Places(events, "ClientDisconnected"))
    /\ \A i, j \in DOMAIN connected : i # j => connected[i] # connected[j]
    /\ \A i \in DOMAIN connected :
           \A c \in DOMAIN before : before[c].entity # connected[i]
    /\ \A k \in Places(events, "ClientConnected") :
           \E entity \in {connected[PlaceNumber(events, "ClientConnected", k)]} :
               IF DisconnectsAgain(events, k)
               THEN \A c \in DOMAIN after : after[c].entity # entity
               ELSE /\ [entity |-> entity, id |-> events[k].id]
                           \in {after[c] : c \in DOMAIN after}
                    /\ Cardinality({c \in DOMAIN after : after[c].entity = entity}) = 1
    /\ \A k \in Places(events, "ClientDisconnected") :
           \E entity \in {disconnected[PlaceNumber(events, "ClientDisconnected", k)]} :
               /\ <<entity>> = CreatedFor(events, k, before, connected)
               /\ \A c \in DOMAIN after : after[c].entity # entity

\* C29: every run of server_socket_event handles its events without a
\* panic: each ClientConnected(id) creates one entity holding ClientSocket(id)
\* and sends a ClientConnectedEvent for it, each ClientDisconnected(id) sends
\* a ClientDisconnectedEvent for the entity created for the id and despawns
\* it, also when the client connected earlier in the same run.
C29_ConnectionEvents ==
    [][ticks' = ticks + 1 =>
           RunHandled(server_events, client_list, client_list',
                      ret'[1], ret'[2], panicked')]_vars

\* Whether a client of the events disconnects after it connected in the
\* same run.
SameRun(events) ==
    \E k \in Places(events, "ClientConnected") : DisconnectsAgain(events, k)

\* The runs in which no client disconnects after it connected in the same
\* run are handled.
ConnectionEventsOfSeparateRuns ==
    [][(ticks' = ticks + 1 /\ ~SameRun(server_events)) =>
           RunHandled(server_events, client_list, client_list',
                      ret'[1], ret'[2], panicked')]_vars

\* No run with the connect and the later disconnect of one client is
\* handled: the run panics, or, when an entity with the socket of the client
\* was there before the run, the ClientDisconnectedEvent names that entity and
\* the new one stays.
SameRunNotHandled ==
    [][(ticks' = ticks + 1 /\ SameRun(server_events)) =>
           ~RunHandled(server_events, client_list, client_list',
                       ret'[1], ret'[2], panicked')]_vars

\* A client disconnected and connected again within one run, and the run
\* gave the client a new entity.
ReconnectInOneRun ==
    /\ last_op = "server_socket_event"
    /\ ~panicked
    /\ prev_val = <<ClientDisconnected(1), ClientConnected(1)>>
    /\ ret = <<<<2>>, <<1>>>>
    /\ client_list = <<[entity |-> 2, id |-> 1]>>

====
